---- MODULE Spec2Model ----
(***************************************************************************)
(* Model of the Pandoc citation scanner of obsidian-pandoc-reference-list: *)
(* getCitationSegments (the character scanner), its locator lookahead      *)
(* helpers, getCitations (the fold of one group into Citation records) and *)
(* renderCrossrefType (the display labels of crossref-style groups); and   *)
(* of processCiteKeys, the reading-view post-processor that replaces the   *)
(* citations of the text nodes of an element; and of mkDeco, which builds  *)
(* the editor's decorations over the visible ranges.                       *)
(*                                                                         *)
(* Text is a sequence of one-character strings.  Offsets are the 0-based   *)
(* offsets of the source (a Segment covers [from, to)).                    *)
(***************************************************************************)
EXTENDS Integers, Sequences, FiniteSets, TLC

VARIABLES str, ignoreLinks, i, state, seekState, segments, pc, locale, groups,
          rendered,
          \* processCiteKeys: the text nodes of the element and the index of
          \* the one at hand, the plugin settings, the section's cached
          \* citations, the index of the match at hand, pos, frag, and the
          \* fragments inserted so far
          nodes, node, settings, sectionCites, matchIndex, pos, frag, fragments,
          \* for each match a rendering pass has taken, the match and what
          \* its  const rendered  was bound to: <<c>>, or <<>> for undefined
          renderedLog,
          \* mkDeco: the texts of the visible ranges and the index of the one
          \* at hand, citekeyCache.citations, the set matched (of indices of
          \* citekeyCache), isLivePreview, and what was added to the builder b
          visibleRanges, rangeIndex, citekeyCache, matched, isLivePreview, decorations

\* the variables of processCiteKeys
postVars ==
    <<nodes, node, settings, sectionCites, matchIndex, pos, frag, fragments,
      renderedLog>>

\* the variables of mkDeco
decoVars == <<visibleRanges, rangeIndex, citekeyCache, matched, isLivePreview, decorations>>

vars ==
    <<str, ignoreLinks, i, state, seekState, segments, pc, locale, groups,
      rendered, nodes, node, settings, sectionCites, matchIndex, pos, frag,
      fragments, renderedLog, visibleRanges, rangeIndex, citekeyCache, matched,
      isLivePreview, decorations>>

(***************************************************************************)
(* Bounds of the model.                                                    *)
(***************************************************************************)
\* longest free text appended to a context in Init
MaxLen == 3
\* most citations in a generated bracket group  [@K1; @K2; ...]
MaxCites == 3

(***************************************************************************)
(* Characters and the character classes of the scanner.                    *)
(***************************************************************************)
\* the value of str[k] for k outside the text (undefined)
Undef == ""

Letters ==
    {"a", "b", "c", "d", "e", "f", "g", "h", "i", "j", "k", "l", "m",
     "n", "o", "p", "q", "r", "s", "t", "u", "v", "w", "x", "y", "z"}

Digits == {"0", "1", "2", "3", "4", "5", "6", "7", "8", "9"}

\* alphaNumeric = /[\p{L}\p{N}]/u ; test(undefined) tests the text "undefined"
alphaNumeric(c) == c = Undef \/ c \in Letters \cup Digits

\* punct = /[:.#$%&\-+?<>~_/]/
punct(c) ==
    c \in {":", ".", "#", "$", "%", "&", "-", "+", "?", "<", ">", "~", "_", "/"}

\* nonKeyPunct = /\p{P}/u  (the ASCII members of Unicode category P)
nonKeyPunct(c) ==
    c \in {"!", "\"", "#", "%", "&", "'", "(", ")", "*", ",", "-", ".", "/",
           ":", ";", "?", "@", "[", "\\", "]", "_", "{", "}"}

\* space = /[ \t\v]/
space(c) == c \in {" ", "\t"}

\* preKey = /[ \t\v[\-\r\n;|]/
preKey(c) == c \in {" ", "\t", "[", "-", "\r", "\n", ";", "|"}

\* postKeyPunct = /[.?,;):]/
postKeyPunct(c) == c \in {".", "?", ",", ";", ")", ":"}

isTerminus(s) == s = Undef \/ s = "\r" \/ s = "\n"

isValidPreKey(s) == s = Undef \/ preKey(s)

(***************************************************************************)
(* Operations on texts.                                                    *)
(***************************************************************************)
\* s.slice(k): the text from 0-based offset k on
Slice(s, k) == SubSeq(s, k + 1, Len(s))

\* text.substring(from, to)
Substring(s, from, to) == SubSeq(s, from + 1, to)

\* RegExp.test for a pattern that is a plain word: the word occurs in s
Contains(s, w) ==
    \E k \in 1..(Len(s) - Len(w) + 1) : SubSeq(s, k, k + Len(w) - 1) = w

\* length of the longest prefix of s whose characters all satisfy the class
RECURSIVE RunLen(_, _)
RunLen(s, cls) ==
    IF s # <<>> /\ Head(s) \in cls THEN 1 + RunLen(Tail(s), cls) ELSE 0

\* String.prototype.trim
WhiteSpace == {" ", "\t", "\r", "\n"}

RECURSIVE TrimStart(_)
TrimStart(s) ==
    IF s # <<>> /\ Head(s) \in WhiteSpace THEN TrimStart(Tail(s)) ELSE s

RECURSIVE TrimEnd(_)
TrimEnd(s) ==
    IF s # <<>> /\ s[Len(s)] \in WhiteSpace
    THEN TrimEnd(SubSeq(s, 1, Len(s) - 1))
    ELSE s

Trim(s) == TrimEnd(TrimStart(s))

(***************************************************************************)
(* Segments and the scanner's State.                                       *)
(***************************************************************************)
\* the value used for an undefined text (no text is this: texts are
\* sequences of one-character strings)
Undefined == <<"undefined">>

\* State.currentSegment = null
NullSeg == [type |-> "null", from |-> 0, to |-> 0, val |-> <<>>]

newState ==
    [live |-> TRUE,
     bracketDepth |-> 0,
     inBrackets |-> FALSE,
     inKey |-> FALSE,
     inExplicitKey |-> FALSE,
     inExplicitLocator |-> FALSE,
     inSuffix |-> FALSE,
     inLink |-> FALSE,
     seekingSuffix |-> FALSE,
     seekingLocator |-> FALSE,
     encounteredKey |-> FALSE,
     shouldCancelSeek |-> FALSE,
     segment |-> <<>>,
     currentSegment |-> NullSeg]

\* state = null / seekState = null
NullState == [newState EXCEPT !.live = FALSE]

newCurrent(k, c, type) ==
    [type |-> type, from |-> k, to |-> k + 1, val |-> <<c>>]

\* a segment of a lookahead parser: val placed at offset index
MkSeg(index, val, type) ==
    [type |-> type, from |-> index, to |-> index + Len(val), val |-> val]

(***************************************************************************)
(* locatorRe: the locator value at the start of a text.  Each operator     *)
(* gives the length of the match at the start of s, 0 when there is none.  *)
(* The pattern is one item (a range, a numbered value or a roman numeral)   *)
(* followed by any number of comma-separated further items, anchored at    *)
(* the start, under the flags i and u.                                     *)
(***************************************************************************)
\* [a-z\p{N}] under the i flag
LocAlnum == Letters \cup Digits

LocOpen == {"[", "("}

LocClose == {"]", ")"}

\* [-—:]
LocDash == {"-", ":"}

\* [ \t]
Blank == {" ", "\t"}

\* a side after its o opening brackets and r letters and digits: [\])]?
LocSideEnd(s, o, r) ==
    IF r = 0 THEN 0
    ELSE IF o + r < Len(s) /\ s[o + r + 1] \in LocClose THEN o + r + 1
    ELSE o + r

\* a side after its o opening brackets: [a-z\p{N}]+
LocSideFrom(s, o) == LocSideEnd(s, o, RunLen(Slice(s, o), LocAlnum))

\* [[(]?[a-z\p{N}]+[\])]?   (one side of a range)
LocSide(s) == LocSideFrom(s, IF s # <<>> /\ Head(s) \in LocOpen THEN 1 ELSE 0)

\* a range whose sides matched a and b characters
LocRangeEnd(a, b) == IF a > 0 /\ b > 0 THEN a + 1 + b ELSE 0

\* a range whose first side matched a characters: [-—:] and the second side.
\* (Nothing the first side could give back is a dash.)
LocRangeFrom(s, a) ==
    LocRangeEnd(a, IF a > 0 /\ a < Len(s) /\ s[a + 1] \in LocDash
                   THEN LocSide(Slice(s, a + 1))
                   ELSE 0)

\* RANGE: side [-—:] side
LocRange(s) == LocRangeFrom(s, LocSide(s))

\* a run of r characters of [a-z\p{N}()[\]] matches if it holds a digit
LocNumberedRun(s, r) == IF \E k \in 1..r : s[k] \in Digits THEN r ELSE 0

\* NUMBERED: [a-z\p{N}()[\]]*\p{N}+[a-z\p{N}()[\]]*
LocNumbered(s) == LocNumberedRun(s, RunLen(s, LocAlnum \cup {"(", ")", "[", "]"}))

\* ROMAN: [mdclxvi]+
LocRoman(s) == RunLen(s, {"m", "d", "c", "l", "x", "v", "i"})

\* the first alternative that matches, in the order the pattern lists them
FirstMatch(range, numbered, roman) ==
    IF range > 0 THEN range
    ELSE IF numbered > 0 THEN numbered
    ELSE roman

LocOne(s) == FirstMatch(LocRange(s), LocNumbered(s), LocRoman(s))

RECURSIVE LocMore(_)

\* a further item, starting at offset at, matched one characters
LocMoreNext(s, at, one) ==
    IF one > 0 THEN at + one + LocMore(Slice(s, at + one)) ELSE 0

\* after sp0 blanks: the comma, blanks and a further item
LocMoreAfter(s, sp0) ==
    IF sp0 < Len(s) /\ s[sp0 + 1] = ","
    THEN LocMoreNext(s, sp0 + 1 + RunLen(Slice(s, sp0 + 1), Blank),
                     LocOne(Slice(s, sp0 + 1 + RunLen(Slice(s, sp0 + 1), Blank))))
    ELSE 0

\* (?:[ \t]*,[ \t]*(?:RANGE|NUMBERED|ROMAN))*
LocMore(s) == LocMoreAfter(s, RunLen(s, Blank))

\* the first item matched one characters
LocFirst(s, one) == IF one = 0 THEN 0 ELSE one + LocMore(Slice(s, one))

locatorRe(s) == LocFirst(s, LocOne(s))

(***************************************************************************)
(* ./locators (locators, locatorToTerm): the label vocabulary and the      *)
(* locale table.  A match of locators is <<sp0, label, sp1>>, or <<>>.     *)
(***************************************************************************)
LocatorLabels ==
    {<<"p", ".">>, <<"p", "p", ".">>, <<"c", "h", ".">>, <<"n", ".">>}

\* the labels that rest starts with
FitLabels(rest) ==
    {l \in LocatorLabels : Len(l) <= Len(rest) /\ SubSeq(rest, 1, Len(l)) = l}

\* the match of a label after n0 leading separator characters
LocatorsMatch(s, n0, label) ==
    <<SubSeq(s, 1, n0),
      label,
      SubSeq(s, n0 + Len(label) + 1,
             n0 + Len(label) + RunLen(Slice(s, n0 + Len(label)), Blank))>>

LocatorsFit(s, n0, fits) ==
    IF fits = {} THEN <<>>
    ELSE LocatorsMatch(s, n0, CHOOSE l \in fits : \A m \in fits : Len(m) <= Len(l))

LocatorsAt(s, n0) == LocatorsFit(s, n0, FitLabels(Slice(s, n0)))

locators(s) == LocatorsAt(s, RunLen(s, {" ", "\t", ","}))

Locales == {"en-US", "xx"}

\* locatorToTerm[locale] && locatorToTerm[locale][label], Undefined if falsy
locatorToTerm(loc, label) ==
    IF loc = "en-US" /\ label \in {<<"p", ".">>, <<"p", "p", ".">>}
        THEN <<"p", "a", "g", "e">>
    ELSE IF loc = "en-US" /\ label = <<"c", "h", ".">>
        THEN <<"c", "h", "a", "p", "t", "e", "r">>
    ELSE Undefined

(***************************************************************************)
(* The lookahead parsers, applied to state.currentSegment.                 *)
(***************************************************************************)
\* LabelSegments without  index = index + sp0.length : the label is placed
\* where the leading separator is
LabelSegmentsNoAdvance(cur, match) ==
    (IF match[1] # <<>> THEN <<MkSeg(cur.from, match[1], "locatorSuffix")>> ELSE <<>>)
    \o <<MkSeg(cur.from, match[2], "locatorLabel")>>
    \o (IF match[3] # <<>>
        THEN <<MkSeg(cur.from + Len(match[2]), match[3], "locatorSuffix")>>
        ELSE <<>>)

\* the segments both parsers emit for the match <<sp0, label, sp1>> of locators
LabelSegments(cur, match) ==
    (IF match[1] # <<>> THEN <<MkSeg(cur.from, match[1], "locatorSuffix")>> ELSE <<>>)
    \o <<MkSeg(cur.from + Len(match[1]), match[2], "locatorLabel")>>
    \o (IF match[3] # <<>>
        THEN <<MkSeg(cur.from + Len(match[1]) + Len(match[2]), match[3],
                     "locatorSuffix")>>
        ELSE <<>>)

\* match.index + match[0].length
MatchLen(match) == Len(match[1]) + Len(match[2]) + Len(match[3])

\* LocatorSegments without the push of the locator segment
LocatorSegmentsNoLocator(cur, match, sliced, n) ==
    IF n = 0 THEN <<>>
    ELSE LabelSegments(cur, match)
         \o (IF Slice(sliced, n) # <<>>
             THEN <<MkSeg(cur.from + MatchLen(match) + n, Slice(sliced, n), "suffix")>>
             ELSE <<>>)

\* LocatorSegments that keeps the label segments when locatorRe finds nothing
LocatorSegmentsSpeculative(cur, match, sliced, n) ==
    IF n = 0 THEN LabelSegments(cur, match)
    ELSE LabelSegments(cur, match)
         \o <<MkSeg(cur.from + MatchLen(match), SubSeq(sliced, 1, n), "locator")>>
         \o (IF Slice(sliced, n) # <<>>
             THEN <<MkSeg(cur.from + MatchLen(match) + n, Slice(sliced, n), "suffix")>>
             ELSE <<>>)

\* parsePossibleLocator once locatorRe matched the first n characters of
\* sliced (n = 0: no match)
LocatorSegments(cur, match, sliced, n) ==
    IF n = 0 THEN <<>>
    ELSE LabelSegments(cur, match)
         \o <<MkSeg(cur.from + MatchLen(match), SubSeq(sliced, 1, n), "locator")>>
         \o (IF Slice(sliced, n) # <<>>
             THEN <<MkSeg(cur.from + MatchLen(match) + n, Slice(sliced, n), "suffix")>>
             ELSE <<>>)

\* parsePossibleLocator after the label: sliced is the text behind the match
PossibleLocatorIn(cur, match, sliced) ==
    LocatorSegments(cur, match, sliced, locatorRe(sliced))

\* parsePossibleLocator given the match of locators
PossibleLocatorOf(cur, match) ==
    IF match = <<>> THEN <<>>
    ELSE PossibleLocatorIn(cur, match, Slice(cur.val, MatchLen(match)))

parsePossibleLocator(cur) == PossibleLocatorOf(cur, locators(cur.val))

\* parseExplicitLocator given the match of locators
ExplicitLocatorOf(cur, match) ==
    IF match = <<>>
    THEN [segs |-> <<>>, cur |-> [cur EXCEPT !.type = "locator"]]
    ELSE IF Slice(cur.val, MatchLen(match)) = <<>>
    THEN [segs |-> <<>>, cur |-> cur]
    ELSE [segs |-> LabelSegments(cur, match)
                   \o <<MkSeg(cur.from + MatchLen(match),
                              Slice(cur.val, MatchLen(match)), "locator")>>,
          cur |-> cur]

\* gives the segments and the current segment (retyped when nothing matches)
parseExplicitLocator(cur) == ExplicitLocatorOf(cur, locators(cur.val))

(***************************************************************************)
(* getCitationSegments.  The locals of one call are the record             *)
(*   m = [state, seekState, segments, threw]                               *)
(* and the operators below are the statements of the loop body, each       *)
(* giving the locals after it.  threw: a TypeError left the function.      *)
(*                                                                         *)
(* Every branch of the loop body calls endCurrent(i) at most once, before  *)
(* it assigns state.currentSegment.  Each block below therefore takes, as  *)
(* e, the locals after that call; a branch that does not call endCurrent   *)
(* does not use e.  What a branch assigns before its call of endCurrent    *)
(* (the bracket depth, shouldCancelSeek, the type of the current segment)  *)
(* is applied first, by the block's ...Before operator.                    *)
(***************************************************************************)
\* str[k]
CharAt(s, k) == IF k >= 0 /\ k < Len(s) THEN s[k + 1] ELSE Undef

\* state = null
Drop(m) == [m EXCEPT !.state = NullState]

\* state.currentSegment = seg
SetCurrent(m, seg) == [m EXCEPT !.state.currentSegment = seg]

\* endSegment with segments.unshift in place of segments.push
endSegmentUnshift(m) ==
    [m EXCEPT !.segments = IF m.state.encounteredKey
                           THEN <<m.state.segment>> \o @
                           ELSE @,
              !.state = NullState]

endSegment(m) ==
    [m EXCEPT !.segments = IF m.state.encounteredKey
                           THEN Append(@, m.state.segment)
                           ELSE @,
              !.state = NullState]

\* PushCurrent without  state.currentSegment.to = k
PushCurrentKeepsTo(m, k) ==
    [m EXCEPT !.state.segment = Append(@, m.state.currentSegment)]

\* state.currentSegment.to = k; state.segment.push(state.currentSegment)
PushCurrent(m, k) ==
    [m EXCEPT !.state.currentSegment.to = k,
              !.state.segment = Append(@, [m.state.currentSegment EXCEPT !.to = k])]

\* endCurrent after parsePossibleLocator returned segs
EndPossible(m, k, segs) ==
    IF segs # <<>>
    THEN [m EXCEPT !.state.segment = @ \o segs, !.state.seekingLocator = FALSE]
    ELSE PushCurrent(m, k)

\* endCurrent after parseExplicitLocator returned r.segs (and retyped the
\* current segment to r.cur)
EndExplicit(m, k, r) ==
    IF r.segs # <<>>
    THEN [m EXCEPT !.state.segment = @ \o r.segs, !.state.seekingLocator = FALSE]
    ELSE PushCurrent(SetCurrent(m, r.cur), k)

\* state.seekingLocator || seekState?.seekingLocator
SeekingLocator(m) ==
    m.state.seekingLocator \/ (m.seekState.live /\ m.seekState.seekingLocator)

endCurrent(m, k) ==
    IF SeekingLocator(m) /\ m.state.currentSegment.type = "suffix"
    THEN EndPossible(m, k, parsePossibleLocator(m.state.currentSegment))
    ELSE IF SeekingLocator(m) /\ m.state.currentSegment.type = "locatorSuffix"
    THEN EndExplicit(m, k, parseExplicitLocator(m.state.currentSegment))
    ELSE PushCurrent(m, k)

\* state.currentSegment = newCurrent(k, c, type), after endCurrent gave e
Begin(e, k, c, type) == SetCurrent(e, newCurrent(k, c, type))

\* state.currentSegment.val += c
Extend(m, c) == [m EXCEPT !.state.currentSegment.val = Append(@, c)]

\* the tail of the loop body:  if (!state?.seekingSuffix) state = null
LoopTail(m) ==
    IF m.state.live /\ m.state.seekingSuffix THEN m ELSE Drop(m)

\* the closing ']' of a group: the bracket is pushed and the group emitted,
\* alone or behind the bare citation saved in seekState
CloseGroup(e, k, c) ==
    IF ~e.seekState.live
    THEN endSegment([e EXCEPT !.state.segment = Append(@, newCurrent(k, c, "bracket"))])
    ELSE [e EXCEPT !.segments =
                       Append(@, e.seekState.segment
                                 \o Append(e.state.segment, newCurrent(k, c, "bracket"))),
                   !.seekState = NullState,
                   !.state = NullState]

\* what the bracket block assigns before endCurrent:  state.bracketDepth--
\* on ']';  shouldCancelSeek = false on ';', '-@' and '|@' (which also
\* retypes the current segment to litNote);  on '}' the retyping of an
\* explicit locator's suffix
InBracketsBefore(m, s, k) ==
    IF CharAt(s, k) = "]"
    THEN [m EXCEPT !.state.bracketDepth = @ - 1]
    ELSE IF CharAt(s, k) = ";" \/ (CharAt(s, k) = "-" /\ CharAt(s, k + 1) = "@")
    THEN [m EXCEPT !.state.shouldCancelSeek = FALSE]
    ELSE IF CharAt(s, k) = "|" /\ CharAt(s, k + 1) = "@"
    THEN [m EXCEPT !.state.shouldCancelSeek = FALSE,
                   !.state.currentSegment.type = "litNote"]
    ELSE IF /\ CharAt(s, k) = "}"
            /\ m.state.inExplicitLocator
            /\ m.state.currentSegment.type = "suffix"
    THEN [m EXCEPT !.state.currentSegment.type = "locatorSuffix",
                   !.state.seekingLocator = FALSE]
    ELSE m

\* the bracket block; m is the locals after InBracketsBefore, e after endCurrent
InBracketsDo(m, e, s, k, ignore) ==
    LET prev == CharAt(s, k - 1)
        c == CharAt(s, k)
        next == CharAt(s, k + 1)
    IN  IF isTerminus(c) THEN Drop(m)
        ELSE IF c = "]" /\ m.state.bracketDepth = 0
        THEN IF ignore /\ (m.state.inLink \/ next = "(")
             THEN [m EXCEPT !.state = NullState, !.seekState = NullState]
             ELSE CloseGroup(e, k, c)
        ELSE IF c = ";" THEN Begin(e, k, c, "separator")
        ELSE IF c = "-" /\ next = "@" THEN Begin(e, k, c, "suppressor")
        ELSE IF c = "|" /\ next = "@" THEN Begin(e, k, c, "linkSeparator")
        ELSE IF c = "{"
        THEN [Begin(e, k, c, "curlyBracket") EXCEPT
                !.state.inExplicitLocator =
                    IF e.seekState.live /\ e.seekState.seekingLocator THEN TRUE ELSE @]
        ELSE IF c = "}" THEN Begin(e, k, c, "curlyBracket")
        ELSE IF prev = "{"
        THEN [Begin(e, k, c, IF e.state.seekingLocator /\ e.state.encounteredKey
                             THEN "locatorSuffix"
                             ELSE "suffix")
                 EXCEPT !.state.inSuffix = TRUE]
        ELSE IF prev = "}"
        THEN [Begin(e, k, c, "suffix") EXCEPT !.state.inSuffix = TRUE]
        ELSE IF m.seekState.live /\ prev = ";"
        THEN [Begin(e, k, c, "prefix") EXCEPT !.state.inSuffix = FALSE]
        ELSE IF m.seekState.live /\ prev = "[" /\ m.state.bracketDepth = 1
        THEN [Begin(e, k, c, "suffix") EXCEPT !.state.inSuffix = TRUE]
        ELSE IF ~m.seekState.live /\ (prev = "[" \/ prev = ";")
        THEN Begin(e, k, c, "prefix")
        ELSE IF m.state.inKey
        THEN [Begin(e, k, c, "suffix") EXCEPT !.state.inSuffix = TRUE,
                                              !.state.inKey = FALSE,
                                              !.state.seekingLocator = TRUE]
        ELSE Extend(m, c)

InBracketsAfter(m, s, k, ignore) == InBracketsDo(m, endCurrent(m, k), s, k, ignore)

\* if (state?.inBrackets) { ... }  (m.state is live and in brackets)
InBrackets(m, s, k, ignore) == InBracketsAfter(InBracketsBefore(m, s, k), s, k, ignore)

\* citeTypes = /(fig|tbl|eq|sec)/ tested on the text of a segment
citeTypes(val) ==
    \/ Contains(val, <<"f", "i", "g">>)
    \/ Contains(val, <<"t", "b", "l">>)
    \/ Contains(val, <<"e", "q">>)
    \/ Contains(val, <<"s", "e", "c">>)

\* InKeyPunctBefore without the retyping of the current segment
InKeyPunctBeforeNoRetype(m, s, k) == m

\* what the punctuation branch assigns before endCurrent: the current
\* segment becomes a citeType when its text holds a crossref type
InKeyPunctBefore(m, s, k) ==
    IF ~isTerminus(CharAt(s, k + 1)) /\ citeTypes(m.state.currentSegment.val)
    THEN [m EXCEPT !.state.currentSegment.type = "citeType"]
    ELSE m

\* if (punct.test(c)) { ... }  inside a key; m is the locals before the
\* branch, e the locals after InKeyPunctBefore and endCurrent
InKeyPunctDo(m, e, s, k) ==
    LET c == CharAt(s, k)
        next == CharAt(s, k + 1)
    IN  IF isTerminus(next)
        THEN Drop(IF ~m.state.inBrackets THEN endSegment(e) ELSE m)
        ELSE IF citeTypes(m.state.currentSegment.val)
        THEN Begin(e, k, c, "typeSeparator")
        ELSE IF next # Undef /\ punct(next)
        THEN IF ~m.state.inBrackets
             THEN endSegment([e EXCEPT !.state.inKey = FALSE])
             ELSE [Begin(e, k, c, "suffix") EXCEPT !.state.inKey = FALSE,
                                                   !.state.inSuffix = TRUE,
                                                   !.state.seekingLocator = TRUE]
        ELSE IF space(next)
        THEN IF ~m.state.inBrackets /\ postKeyPunct(c) THEN endSegment(e)
             ELSE IF ~m.state.inBrackets THEN endSegment(m)
             ELSE [Begin(e, k, c, "suffix") EXCEPT !.state.inKey = FALSE,
                                                   !.state.inSuffix = TRUE,
                                                   !.state.seekingLocator = TRUE]
        ELSE Extend(m, c)

InKeyPunct(m, s, k) == InKeyPunctDo(m, endCurrent(InKeyPunctBefore(m, s, k), k), s, k)

\* the key block; e is the locals after endCurrent
InKeyDo(m, e, s, k, ignore) ==
    LET prev == CharAt(s, k - 1)
        c == CharAt(s, k)
    IN  IF isTerminus(c)
        THEN Drop(IF ~m.state.inBrackets THEN endSegment(e) ELSE m)
        ELSE IF prev = "@" \/ prev = ":"
        THEN IF alphaNumeric(c) \/ c = "_"
             THEN Begin(e, k, c, "key")
             ELSE IF c = "{"
             THEN [Begin(e, k, c, "curlyBracket") EXCEPT !.state.inExplicitKey = TRUE]
             ELSE Drop(m)
        ELSE IF m.state.inExplicitKey /\ c # "}"
        THEN IF m.state.currentSegment.type # "key"
             THEN Begin(e, k, c, "key")
             ELSE Extend(m, c)
        ELSE IF c = "}"
        THEN IF ~m.state.inBrackets
             THEN [e EXCEPT !.state.inKey = FALSE,
                            !.state.inExplicitKey = TRUE,
                            !.state.seekingLocator = TRUE,
                            !.state.segment = Append(@, newCurrent(k, c, "curlyBracket")),
                            !.state.seekingSuffix = TRUE,
                            !.state.shouldCancelSeek = TRUE]
             ELSE [Begin(e, k, c, "curlyBracket") EXCEPT !.state.inKey = FALSE,
                                                         !.state.inExplicitKey = TRUE,
                                                         !.state.seekingLocator = TRUE,
                                                         !.state.inSuffix = TRUE]
        ELSE IF c = "{"
        THEN [Begin(e, k, c, "curlyBracket") EXCEPT !.state.inKey = FALSE,
                                                     !.state.inSuffix = TRUE,
                                                     !.state.seekingLocator = TRUE,
                                                     !.state.inExplicitLocator = TRUE]
        ELSE IF alphaNumeric(c)
        THEN Extend(m, c)
        ELSE IF space(c)
        THEN IF ~m.state.inBrackets
             THEN [e EXCEPT !.state.inKey = FALSE,
                            !.state.seekingLocator = TRUE,
                            !.state.seekingSuffix = TRUE,
                            !.state.shouldCancelSeek = TRUE]
             ELSE [Begin(e, k, c, "suffix") EXCEPT !.state.inKey = FALSE,
                                                   !.state.seekingLocator = TRUE,
                                                   !.state.inSuffix = TRUE]
        ELSE IF punct(c)
        THEN InKeyPunct(m, s, k)
        ELSE IF ~m.state.inBrackets
        THEN Drop(IF nonKeyPunct(c) THEN endSegment(e) ELSE m)
        ELSE InBrackets(m, s, k, ignore)

\* if (state?.inKey) { ... }  (m.state is live and in a key); what is not
\* decided there falls through to the bracket block
InKey(m, s, k, ignore) == InKeyDo(m, endCurrent(m, k), s, k, ignore)

\* if (seekState && state.shouldCancelSeek) { segments.push(seekState.segment);
\* seekState = null }   (state is not null here)
CancelSeek(m) ==
    IF m.seekState.live /\ m.state.shouldCancelSeek
    THEN [m EXCEPT !.segments = Append(@, m.seekState.segment),
                   !.seekState = NullState]
    ELSE m

\* if (state?.inBrackets) endCurrent(i); else state = newState();
\* then the '@' becomes the current segment
OpenKey(m, k, c) ==
    [(IF m.state.live /\ m.state.inBrackets
      THEN endCurrent(m, k)
      ELSE [m EXCEPT !.state = newState])
     EXCEPT !.state.currentSegment = newCurrent(k, c, "at"),
            !.state.inKey = TRUE,
            !.state.encounteredKey = TRUE]

\* the loop body from  if (c === '@' && isValidPreKey(prev))  on
AfterOpen(m, s, k, ignore) ==
    LET prev == CharAt(s, k - 1)
        c == CharAt(s, k)
    IN  IF c = "@" /\ isValidPreKey(prev)
        THEN IF m.seekState.live /\ ~m.state.live
             THEN \* state.shouldCancelSeek of null
                  [m EXCEPT !.threw = TRUE]
             ELSE OpenKey(CancelSeek(m), k, c)
        ELSE IF m.state.live /\ m.state.seekingSuffix /\ ~space(c)
        THEN endSegment(m)
        ELSE IF m.state.live /\ m.state.inKey
        THEN InKey(m, s, k, ignore)
        ELSE IF m.state.live /\ m.state.inBrackets
        THEN InBrackets(m, s, k, ignore)
        ELSE LoopTail(m)

\* if (state) state.bracketDepth++
Deepen(m) == IF m.state.live THEN [m EXCEPT !.state.bracketDepth = @ + 1] ELSE m

\* the '[' that opens a group: the bare citation seeking its suffix is saved
\* in seekState and a new state begins with the bracket; m is after Deepen
OpenGroup(m, k, c, prev) ==
    [m EXCEPT !.seekState = IF m.state.live /\ m.state.seekingSuffix
                            THEN m.state
                            ELSE @,
              !.state = [newState EXCEPT
                           !.bracketDepth = 1,
                           !.currentSegment = newCurrent(k, c, "bracket"),
                           !.inBrackets = TRUE,
                           !.inLink = (prev = "[")]]

\* one iteration of  for (let i = 0, len = str.length + 1; i < len; i++)
LoopBody(m, s, k, ignore) ==
    LET prev == CharAt(s, k - 1)
        c == CharAt(s, k)
        next == CharAt(s, k + 1)
    IN  IF c = "[" /\ next = "[" /\ ~m.state.live
        THEN m
        ELSE IF c = "[" /\ (~m.state.live \/ Deepen(m).state.bracketDepth = 1)
        THEN OpenGroup(Deepen(m), k, c, prev)
        ELSE AfterOpen(IF c = "[" THEN Deepen(m) ELSE m, s, k, ignore)

\* after the loop:  if (state?.seekingSuffix) segments.push(state.segment)
Flush(m) ==
    IF m.state.live /\ m.state.seekingSuffix
    THEN [m EXCEPT !.segments = Append(@, m.state.segment)]
    ELSE m

(***************************************************************************)
(* getCitations: the fold of one group of segments into Citation records.  *)
(* An optional text field that is not set holds Undefined; a flag that is  *)
(* not set is FALSE.                                                       *)
(***************************************************************************)
\* x?.trim() is truthy
TrimTruthy(x) == x # Undefined /\ Trim(x) # <<>>

\* the accumulators at the start of getCitations
NoCitations ==
    [key |-> Undefined, prefix |-> Undefined, suffix |-> Undefined,
     infix |-> Undefined, locator |-> Undefined, label |-> Undefined,
     litNote |-> Undefined, citeType |-> Undefined,
     suppressAuthor |-> FALSE, onlyAuthor |-> FALSE, composite |-> FALSE,
     cites |-> <<>>]

\* push with the raw label in place of the term of the locale
pushRawLabel(a, loc) ==
    LET cite ==
            [id |-> a.key,
             prefix |-> IF TrimTruthy(a.prefix) THEN Trim(a.prefix) ELSE Undefined,
             suffix |-> IF TrimTruthy(a.suffix) THEN Trim(a.suffix) ELSE Undefined,
             infix |-> IF TrimTruthy(a.infix) THEN Trim(a.infix) ELSE Undefined,
             litNote |-> IF TrimTruthy(a.litNote) THEN Trim(a.litNote) ELSE Undefined,
             citeType |-> IF TrimTruthy(a.citeType) THEN Trim(a.citeType) ELSE Undefined,
             locator |-> IF a.locator # Undefined /\ a.locator # <<>>
                         THEN a.locator
                         ELSE Undefined,
             label |-> IF a.label # Undefined /\ a.label # <<>>
                       THEN a.label
                       ELSE Undefined,
             composite |-> a.composite,
             suppressAuthor |-> ~a.composite /\ a.suppressAuthor,
             authorOnly |-> ~a.composite /\ ~a.suppressAuthor /\ a.onlyAuthor]
    IN  [a EXCEPT !.composite = FALSE,
                  !.onlyAuthor = FALSE,
                  !.suppressAuthor = FALSE,
                  !.cites = Append(@, cite)]

\* push with three independent tests in place of  if / else if / else if
pushEveryFlag(a, loc) ==
    LET cite ==
            [id |-> a.key,
             prefix |-> IF TrimTruthy(a.prefix) THEN Trim(a.prefix) ELSE Undefined,
             suffix |-> IF TrimTruthy(a.suffix) THEN Trim(a.suffix) ELSE Undefined,
             infix |-> IF TrimTruthy(a.infix) THEN Trim(a.infix) ELSE Undefined,
             litNote |-> IF TrimTruthy(a.litNote) THEN Trim(a.litNote) ELSE Undefined,
             citeType |-> IF TrimTruthy(a.citeType) THEN Trim(a.citeType) ELSE Undefined,
             locator |-> IF a.locator # Undefined /\ a.locator # <<>>
                         THEN a.locator
                         ELSE Undefined,
             label |-> IF a.label # Undefined /\ a.label # <<>>
                       THEN locatorToTerm(loc, a.label)
                       ELSE Undefined,
             composite |-> a.composite,
             suppressAuthor |-> a.suppressAuthor,
             authorOnly |-> a.onlyAuthor]
    IN  [a EXCEPT !.composite = FALSE,
                  !.onlyAuthor = FALSE,
                  !.suppressAuthor = FALSE,
                  !.cites = Append(@, cite)]

\* const push = () => { ... }: the citation of the accumulators is appended
\* and the three flags are cleared
push(a, loc) ==
    LET cite ==
            [id |-> a.key,
             prefix |-> IF TrimTruthy(a.prefix) THEN Trim(a.prefix) ELSE Undefined,
             suffix |-> IF TrimTruthy(a.suffix) THEN Trim(a.suffix) ELSE Undefined,
             infix |-> IF TrimTruthy(a.infix) THEN Trim(a.infix) ELSE Undefined,
             litNote |-> IF TrimTruthy(a.litNote) THEN Trim(a.litNote) ELSE Undefined,
             citeType |-> IF TrimTruthy(a.citeType) THEN Trim(a.citeType) ELSE Undefined,
             locator |-> IF a.locator # Undefined /\ a.locator # <<>>
                         THEN a.locator
                         ELSE Undefined,
             label |-> IF a.label # Undefined /\ a.label # <<>>
                       THEN locatorToTerm(loc, a.label)
                       ELSE Undefined,
             composite |-> a.composite,
             suppressAuthor |-> ~a.composite /\ a.suppressAuthor,
             authorOnly |-> ~a.composite /\ ~a.suppressAuthor /\ a.onlyAuthor]
    IN  [a EXCEPT !.composite = FALSE,
                  !.onlyAuthor = FALSE,
                  !.suppressAuthor = FALSE,
                  !.cites = Append(@, cite)]

\* FoldAt without the test of the index
FoldAtAnywhere(a, k) == [a EXCEPT !.composite = TRUE]

\* case SegmentType.at:  if (i === 0) composite = true   (k is the index i)
FoldAt(a, k) == IF k = 0 THEN [a EXCEPT !.composite = TRUE] ELSE a

\* FoldSuppressor without  suppressAuthor = true
FoldSuppressorUnset(a, loc) ==
    IF a.composite
    THEN push([a EXCEPT !.suffix = Undefined,
                        !.locator = Undefined,
                        !.label = Undefined,
                        !.composite = FALSE,
                        !.onlyAuthor = TRUE], loc)
    ELSE a

\* FoldSuppressor without  onlyAuthor = true
FoldSuppressorNoAuthorOnly(a, loc) ==
    [(IF a.composite
      THEN push([a EXCEPT !.suffix = Undefined,
                          !.locator = Undefined,
                          !.label = Undefined,
                          !.composite = FALSE], loc)
      ELSE a) EXCEPT !.suppressAuthor = TRUE]

\* case SegmentType.suppressor
FoldSuppressor(a, loc) ==
    [(IF a.composite
      THEN push([a EXCEPT !.suffix = Undefined,
                          !.locator = Undefined,
                          !.label = Undefined,
                          !.composite = FALSE,
                          !.onlyAuthor = TRUE], loc)
      ELSE a) EXCEPT !.suppressAuthor = TRUE]

\* FoldSeparator without the push of the citation that ends
FoldSeparatorNoPush(a, loc) ==
    [a EXCEPT !.prefix = Undefined,
              !.suffix = Undefined,
              !.locator = Undefined,
              !.label = Undefined,
              !.infix = Undefined,
              !.litNote = Undefined,
              !.onlyAuthor = FALSE,
              !.suppressAuthor = FALSE,
              !.composite = FALSE]

\* case SegmentType.separator
FoldSeparator(a, loc) ==
    [push(a, loc) EXCEPT !.prefix = Undefined,
                         !.suffix = Undefined,
                         !.locator = Undefined,
                         !.label = Undefined,
                         !.infix = Undefined,
                         !.litNote = Undefined,
                         !.onlyAuthor = FALSE,
                         !.suppressAuthor = FALSE,
                         !.composite = FALSE]

\* FoldLitNote without  composite = true
FoldLitNoteNotComposite(a, val) == [a EXCEPT !.litNote = val]

\* case SegmentType.litNote
FoldLitNote(a, val) == [a EXCEPT !.litNote = val, !.composite = TRUE]

\* the switch on segments[k] (k is the 0-based index of the loop)
FoldSegment(a, seg, k, loc) ==
    CASE seg.type = "at" -> FoldAt(a, k)
      [] seg.type = "suppressor" -> FoldSuppressor(a, loc)
      [] seg.type = "separator" -> FoldSeparator(a, loc)
      [] seg.type = "key" -> [a EXCEPT !.key = seg.val]
      [] seg.type = "prefix" -> [a EXCEPT !.prefix = seg.val]
      [] seg.type = "suffix" -> [a EXCEPT !.suffix = seg.val]
      [] seg.type = "locator" -> [a EXCEPT !.locator = seg.val]
      [] seg.type = "locatorLabel" -> [a EXCEPT !.label = seg.val]
      [] seg.type = "litNote" -> FoldLitNote(a, seg.val)
      [] seg.type = "citeType" -> [a EXCEPT !.citeType = seg.val]
      [] OTHER -> a

\* the accumulators after the first n segments
RECURSIVE FoldSegments(_, _, _)
FoldSegments(segs, n, loc) ==
    IF n = 0 THEN NoCitations
    ELSE FoldSegment(FoldSegments(segs, n - 1, loc), segs[n], n - 1, loc)

\* the CitationGroup of a group of segments (the group is not empty)
getCitations(segs, loc) ==
    [data |-> segs,
     citations |-> push(FoldSegments(segs, Len(segs), loc), loc).cites,
     from |-> segs[1].from,
     to |-> segs[Len(segs)].to]

(***************************************************************************)
(* renderCrossrefType: the RenderedCitations of a list of CitationGroups.  *)
(***************************************************************************)
\* an undefined value where the code needs a text: the text "undefined"
ToText(x) ==
    IF x = Undefined THEN <<"u", "n", "d", "e", "f", "i", "n", "e", "d">> ELSE x

\* ids.join(", ")  (join writes an undefined element as the empty text)
RECURSIVE JoinIds(_)
JoinIds(cs) ==
    IF cs = <<>> THEN <<>>
    ELSE (IF Head(cs).id = Undefined THEN <<>> ELSE Head(cs).id)
         \o (IF Len(cs) > 1 THEN <<",", " ">> ELSE <<>>)
         \o JoinIds(Tail(cs))

\* group.filter((s) => s.citations.some((c) => citeTypes.test(c.citeType)))
crossrefType(group) ==
    SelectSeq(group,
              LAMBDA s : \E k \in 1..Len(s.citations) :
                            citeTypes(ToText(s.citations[k].citeType)))

\* the switch on citation.citations[0].citeType: the label after it, given
\* the label before it (no case assigns it when the type is none of the four)
SwitchLabel(label, citation) ==
    CASE citation.citations[1].citeType = <<"f", "i", "g">> ->
            IF Len(citation.citations) > 1
            THEN <<"F", "i", "g", "u", "r", "e", "s", " ">>
            ELSE <<"F", "i", "g", "u", "r", "e", " ">>
      [] citation.citations[1].citeType = <<"e", "q">> ->
            IF Len(citation.citations) > 1
            THEN <<"E", "q", "u", "a", "t", "i", "o", "n", "s", " ">>
            ELSE <<"E", "q", "u", "a", "t", "i", "o", "n", " ">>
      [] citation.citations[1].citeType = <<"t", "b", "l">> ->
            IF Len(citation.citations) > 1
            THEN <<"T", "a", "b", "l", "e", "s", " ">>
            ELSE <<"T", "a", "b", "l", "e", " ">>
      [] citation.citations[1].citeType = <<"s", "e", "c">> ->
            IF Len(citation.citations) > 1
            THEN <<"S", "e", "c", "t", "i", "o", "n", "s", " ">>
            ELSE <<"S", "e", "c", "t", "i", "o", "n", " ">>
      [] OTHER -> label

buildCite(citeLabel, group) ==
    [data |-> group.data, citations |-> group.citations,
     from |-> group.from, to |-> group.to, val |-> citeLabel]

RECURSIVE RenderFrom(_, _)

\* one iteration of the loop over crossrefType, label being the one the
\* switch left, and the iterations after it
RenderOne(list, label) ==
    <<buildCite(<<"[">> \o ToText(label) \o JoinIds(Head(list).citations) \o <<"]">>,
                Head(list))>>
    \o RenderFrom(Tail(list), label)

\* the loop over crossrefType from its first element on; label is the
\* value of the variable label when the iteration begins
RenderFrom(list, label) ==
    IF list = <<>> THEN <<>>
    ELSE RenderOne(list, SwitchLabel(label, Head(list)))

renderCrossrefType(group) == RenderFrom(crossrefType(group), Undefined)

(***************************************************************************)
(* The inputs.                                                             *)
(***************************************************************************)
\* all texts over the characters cs of at most n characters
Texts(cs, n) == UNION {[1..k -> cs] : k \in 0..n}

\* A context is the start of a text and the characters of the free text that
\* follows it: the characters the scanner tells apart in the state the start
\* leaves it in.
Contexts ==
    {\* the start of the text
     [pre |-> <<>>,
      chars |-> {"@", "a", "[", "]", "{", "}", " ", "\n", ".", "-"}],
     \* inside the key of a bare citation
     [pre |-> <<"@", "a">>,
      chars |-> {"@", "a", "[", "{", "}", " ", "\n", ".", ",", ":", "#"}],
     \* a bare citation seeking its suffix
     [pre |-> <<"@", "a", " ">>,
      chars |-> {"@", "a", "[", "]", " ", "\n", "."}],
     \* a bracket group opened after a bare citation
     [pre |-> <<"@", "a", " ", "[">>,
      chars |-> {"@", "a", "[", "]", "{", " ", "\n", ";", "-", "("}],
     \* inside the key of a bracket group
     [pre |-> <<"[", "@", "a">>,
      chars |-> {"@", "a", "]", "{", "}", " ", "\n", ".", ",", ";", "-", "("}],
     \* a locator label waiting for its locator
     [pre |-> <<"[", "@", "a", ",", " ", "p", ".", " ">>,
      chars |-> {"a", "1", "i", "]", " ", ",", "-", "("}],
     \* inside a wiki link, after the link separator
     [pre |-> <<"[", "[", "a", "|", "@", "a">>,
      chars |-> {"@", "a", "[", "]", " ", "\n", "|", "("}],
     \* inside a wiki link opened after a bare citation
     [pre |-> <<"@", "a", " ", "[", "[", "@", "b">>,
      chars |-> {"a", "]", " ", "|", "("}],
     \* a bare key that spells a crossref type
     [pre |-> <<"@", "e", "q">>,
      chars |-> {"a", ".", ":", "_", " ", "\n"}],
     \* a suppressed citation before a link separator
     [pre |-> <<"[", "-", "@", "a", "|", "@", "b">>,
      chars |-> {"a", "]", " ", ";"}],
     \* an explicit locator opened after a key
     [pre |-> <<"[", "@", "a", "{">>,
      chars |-> {"p", ".", "1", "}", "]"}],
     \* an explicit locator that starts with a label
     [pre |-> <<"[", "@", "a", "{", "p", ".">>,
      chars |-> {" ", "1", "}", "]"}]}

Inputs == UNION {{c.pre \o t : t \in Texts(c.chars, MaxLen)} : c \in Contexts}

(***************************************************************************)
(* The citation forms of the documentation, generated from small sets of   *)
(* keys, labels, numbers and paths.                                        *)
(***************************************************************************)
\* longest generated key
MaxKeyLen == 2
\* longest generated locator number
MaxNumLen == 2
\* longest generated literature-note path
MaxPath == 3

\* the texts over cs of 1 to n characters
Words(cs, n) == UNION {[1..k -> cs] : k \in 1..n}

Keys == Words({"a", "b", "1"}, MaxKeyLen)

\* the keys of the generated lists
ListKeys == {<<"a">>, <<"b", "1">>, <<"1">>}

Numbers == Words({"1", "2"}, MaxNumLen)

Paths == Words({"n", "1", "/", " "}, MaxPath)

\* [@K]
BracketKey(K) == <<"[", "@">> \o K \o <<"]">>

\* @K1; @K2; ...; @Kn
RECURSIVE JoinKeys(_)
JoinKeys(ks) ==
    IF Len(ks) = 1 THEN <<"@">> \o ks[1]
    ELSE <<"@">> \o ks[1] \o <<";", " ">> \o JoinKeys(Tail(ks))

\* [@K1; @K2; ...; @Kn]
BracketList(ks) == <<"[">> \o JoinKeys(ks) \o <<"]">>

KeyLists == UNION {[1..n -> ListKeys] : n \in 2..MaxCites}

\* [-@K]
Suppressed(K) == <<"[", "-", "@">> \o K \o <<"]">>

\* [@K, L N]
Located(K, L, N) == <<"[", "@">> \o K \o <<",", " ">> \o L \o <<" ">> \o N \o <<"]">>

\* @K [-@K2, p. N]
BareSuppressed(K, K2, N) ==
    <<"@">> \o K \o <<" ", "[", "-", "@">> \o K2 \o <<",", " ", "p", ".", " ">> \o N
    \o <<"]">>

\* the words between a separator and the next citation
PrefixWords == {<<"s">>, <<"s", "e", "e">>}

\* [@K1; W @K2]
PrefixedDirect(K1, W, K2) ==
    <<"[", "@">> \o K1 \o <<";", " ">> \o W \o <<" ", "@">> \o K2 \o <<"]">>

\* [@K1 ; W @K2]
PrefixedSpaced(K1, W, K2) ==
    <<"[", "@">> \o K1 \o <<" ", ";", " ">> \o W \o <<" ", "@">> \o K2 \o <<"]">>

\* [[P|@K]]
LinkNote(P, K) == <<"[", "[">> \o P \o <<"|", "@">> \o K \o <<"]", "]">>

FormInputs ==
    {BracketKey(K) : K \in Keys}
    \cup {BracketList(ks) : ks \in KeyLists}
    \cup {Suppressed(K) : K \in Keys}
    \cup {Located(K, L, N) : K \in ListKeys, L \in LocatorLabels, N \in Numbers}
    \cup {LinkNote(P, K) : P \in Paths, K \in ListKeys}
    \cup {BareSuppressed(<<"a">>, K2, N) : K2 \in ListKeys, N \in Numbers}
    \cup {PrefixedDirect(<<"a">>, W, K2) : W \in PrefixWords, K2 \in ListKeys}
    \cup {PrefixedSpaced(<<"a">>, W, K2) : W \in PrefixWords, K2 \in ListKeys}

(***************************************************************************)
(* The crossref-style forms: texts of one or more bracket groups whose     *)
(* citations carry a crossref type, separated by a space.                  *)
(***************************************************************************)
\* most bracket groups in a generated text
MaxGroups == 2

CrossTypes ==
    {<<"f", "i", "g">>, <<"t", "b", "l">>, <<"e", "q">>, <<"s", "e", "c">>}

CrossKeys == {<<"a">>, <<"b", "1">>}

\* [@T:K]
CrossKey(T, K) == <<"[", "@">> \o T \o <<":">> \o K \o <<"]">>

\* [@T:a; @T:b1]
CrossPair(T) ==
    <<"[", "@">> \o T \o <<":", "a", ";", " ", "@">> \o T \o <<":", "b", "1", "]">>

\* [@a; @T:b1]
MixedPair(T) == <<"[", "@", "a", ";", " ", "@">> \o T \o <<":", "b", "1", "]">>

CrossForms ==
    {CrossKey(T, K) : T \in CrossTypes, K \in CrossKeys}
    \cup {CrossPair(T) : T \in CrossTypes}
    \cup {MixedPair(T) : T \in CrossTypes}
    \cup {BracketKey(<<"a">>)}

\* the forms fs, separated by a space
RECURSIVE JoinForms(_)
JoinForms(fs) ==
    IF Len(fs) = 1 THEN fs[1] ELSE fs[1] \o <<" ">> \o JoinForms(Tail(fs))

CrossInputs ==
    {JoinForms(fs) : fs \in UNION {[1..n -> CrossForms] : n \in 1..MaxGroups}}

(***************************************************************************)
(* The program: one call of getCitationSegments on str, an iteration of    *)
(* its loop per step, then getCitations on every group it returned.        *)
(***************************************************************************)
\* no mkDeco call is under way
NoDeco ==
    /\ visibleRanges = <<>>
    /\ rangeIndex = 0
    /\ citekeyCache = <<>>
    /\ matched = {}
    /\ isLivePreview = FALSE
    /\ decorations = <<>>

Start(texts) ==
    /\ str \in texts
    /\ ignoreLinks \in BOOLEAN
    /\ i = 0
    /\ state = NullState
    /\ seekState = NullState
    /\ segments = <<>>
    /\ pc = "scan"
    /\ locale = "en-US"
    /\ groups = <<>>
    /\ rendered = <<>>
    /\ nodes = <<>>
    /\ node = 0
    /\ settings = [renderLinkCitations |-> FALSE, renderCitationsReadingMode |-> FALSE]
    /\ sectionCites = <<>>
    /\ matchIndex = 0
    /\ pos = 0
    /\ frag = <<>>
    /\ fragments = <<>>
    /\ renderedLog = <<>>
    /\ NoDeco

Init == Start(Inputs)

InitForms == Start(FormInputs)

InitCrossref == Start(CrossInputs)

Locals == [state |-> state, seekState |-> seekState, segments |-> segments,
           threw |-> FALSE]

\* the locals after an iteration are m; a TypeError ends the call
Step(m) ==
    IF m.threw
    THEN /\ pc' = "threw"
         /\ UNCHANGED <<i, state, seekState, segments>>
    ELSE /\ pc' = "scan"
         /\ i' = i + 1
         /\ state' = m.state
         /\ seekState' = m.seekState
         /\ segments' = m.segments

\* one iteration of the loop
Iterate ==
    /\ pc = "scan"
    /\ i < Len(str) + 1
    /\ Step(LoopBody(Locals, str, i, ignoreLinks))
    /\ UNCHANGED <<str, ignoreLinks, locale, groups, rendered>>
    /\ UNCHANGED postVars
    /\ UNCHANGED decoVars

\* the end of the loop: the pending bare citation is flushed, segments returned
Return ==
    /\ pc = "scan"
    /\ i = Len(str) + 1
    /\ segments' = Flush(Locals).segments
    /\ pc' = "returned"
    /\ UNCHANGED <<str, ignoreLinks, i, state, seekState, locale, groups, rendered>>
    /\ UNCHANGED postVars
    /\ UNCHANGED decoVars

\* the caller folds every returned group with getCitations
Aggregate ==
    /\ pc = "returned"
    /\ \E loc \in Locales :
          /\ locale' = loc
          /\ groups' = [g \in 1..Len(segments) |-> getCitations(segments[g], loc)]
    /\ pc' = "done"
    /\ UNCHANGED <<str, ignoreLinks, i, state, seekState, segments, rendered>>
    /\ UNCHANGED postVars
    /\ UNCHANGED decoVars

\* the caller renders the crossref-style groups
Render ==
    /\ pc = "done"
    /\ rendered' = renderCrossrefType(groups)
    /\ pc' = "rendered"
    /\ UNCHANGED <<str, ignoreLinks, i, state, seekState, segments, locale, groups>>
    /\ UNCHANGED postVars
    /\ UNCHANGED decoVars

Next == Iterate \/ Return \/ Aggregate \/ Render

Spec == Init /\ [][Next]_vars

\* the same program on the citation forms
SpecForms == InitForms /\ [][Next]_vars

\* the same program on the crossref-style forms
SpecCrossref == InitCrossref /\ [][Next]_vars

(***************************************************************************)
(* processCiteKeys: the handler walks the text nodes of an element, scans  *)
(* the content of each with getCitationSegments and replaces the node by   *)
(* a fragment in which every match is rendered, from the section's cached  *)
(* citation when one has the same keys, segment by segment otherwise.      *)
(* The model begins where the handler has fetched sectionCites.  A node is *)
(* its parent's tag and its text; a fragment is the sequence of the items  *)
(* appended to it.  An optional noteIndex is <<n>>, or <<>> when it is     *)
(* undefined.                                                              *)
(***************************************************************************)
\* most text nodes of a generated element
MaxNodes == 2

\* the segments of [@K] for a key K of one character
KeyGroup(K) ==
    <<newCurrent(0, "[", "bracket"), newCurrent(1, "@", "at"),
      newCurrent(2, K, "key"), newCurrent(3, "]", "bracket")>>

\* the cached RenderedCitation of the [@K] at the offset from of the
\* document, with the noteIndex
CacheEntryAt(K, noteIndex, from) ==
    [data |-> KeyGroup(K),
     citations |-> getCitations(KeyGroup(K), "en-US").citations,
     from |-> from,
     to |-> from + 4,
     val |-> <<"(", K, ")">>,
     noteIndex |-> noteIndex]

\* the cached RenderedCitation of [@K] with the noteIndex
CacheEntry(K, noteIndex) == CacheEntryAt(K, noteIndex, 0)

\* the cached citations of a section, as the cache hands them over
CacheLists ==
    {<<>>,
     <<CacheEntry("a", <<1>>)>>,
     <<CacheEntry("b", <<1>>)>>,
     <<CacheEntry("b", <<2>>), CacheEntry("a", <<1>>)>>,
     <<CacheEntry("a", <<>>)>>,
     <<CacheEntryAt("a", <<2>>, 5), CacheEntry("a", <<1>>)>>,
     <<CacheEntry("a", <<1>>), CacheEntryAt("a", <<1>>, 5)>>,
     <<CacheEntry("a", <<>>), CacheEntryAt("a", <<>>, 5)>>}

NodeSet ==
    {[tag |-> "P", text |-> <<"[", "@", "a", "]">>],
     [tag |-> "P", text |-> <<"[", "@", "b", "]">>],
     [tag |-> "P", text |-> <<"[", "@", "a", "]", " ", "[", "@", "b", "]">>],
     [tag |-> "P", text |-> <<"[", "@", "a", "]", " ", "[", "@", "a", "]">>],
     [tag |-> "P", text |-> <<"x">>],
     [tag |-> "CODE", text |-> <<"[", "@", "a", "]">>],
     [tag |-> "A", text |-> <<"@", "a">>]}

NodeLists == UNION {[1..n -> NodeSet] : n \in 1..MaxNodes}

\* onlyKey: the type and val of the key segments
onlyKey(segs) ==
    [k \in 1..Len(SelectSeq(segs, LAMBDA x : x.type = "key")) |->
        [type |-> SelectSeq(segs, LAMBDA x : x.type = "key")[k].type,
         val |-> SelectSeq(segs, LAMBDA x : x.type = "key")[k].val]]

\* sectionCites.find((c) => equal(onlyKey(c.data), onlyKey(match))): the
\* index of the first such citation, 0 when find returns undefined
FindCite(cites, match) ==
    IF \E k \in 1..Len(cites) : onlyKey(cites[k].data) = onlyKey(match)
    THEN CHOOSE k \in 1..Len(cites) :
            /\ onlyKey(cites[k].data) = onlyKey(match)
            /\ \A j \in 1..(k - 1) : onlyKey(cites[j].data) # onlyKey(match)
    ELSE 0

\* a filter that removes nothing
FilterCitesNone(cites, found) == cites

\* sectionCites.filter((c) => c.noteIndex !== rendered.noteIndex ||
\*                            typeof c.noteIndex === "undefined")
FilterCites(cites, found) ==
    SelectSeq(cites, LAMBDA c : c.noteIndex # found.noteIndex \/ c.noteIndex = <<>>)

\* sectionCites.sort((a, b) => a.noteIndex - b.noteIndex); with an undefined
\* noteIndex the comparator gives NaN, which sort takes as equal
SortCites(cites) ==
    IF \E k \in 1..Len(cites) : cites[k].noteIndex = <<>>
    THEN cites
    ELSE SortSeq(cites, LAMBDA a, b : a.noteIndex[1] < b.noteIndex[1])

\* frag.appendText(text)
TextItem(text) == [kind |-> "text", type |-> "", val |-> text]

\* the segment types the fallback loop renders as a span
SpanTypes ==
    {"key", "at", "curlyBracket", "bracket", "separator", "suppressor", "prefix",
     "suffix", "locator", "locatorLabel", "locatorSuffix"}

\* the fallback loop over the parts of a match, from the position p on
RECURSIVE FallbackItems(_, _, _)
FallbackItems(content, p, parts) ==
    IF parts = <<>> THEN <<>>
    ELSE <<TextItem(Substring(content, p, Head(parts).from))>>
         \o (IF Head(parts).type \in SpanTypes
             THEN <<[kind |-> "span", type |-> Head(parts).type, val |-> Head(parts).val]>>
             ELSE <<>>)
         \o FallbackItems(content, Head(parts).to, Tail(parts))

\* the items of a match rendered from the cached citation found
RenderedItems(content, p, match, found) ==
    <<TextItem(Substring(content, p, match[1].from)),
      [kind |-> "citation",
       type |-> "",
       val |-> IF settings.renderCitationsReadingMode
               THEN found.val
               ELSE nodes[node].text]>>

\* the content of a node: the text of a link is put in brackets
ContentOf(n) == IF n.tag = "A" THEN <<"[">> \o n.text \o <<"]">> ELSE n.text

\* the walker skips a node of a code element, and a link when link
\* citations are not rendered
Skipped(n) == n.tag = "CODE" \/ (n.tag = "A" /\ ~settings.renderLinkCitations)

InitPost ==
    /\ str = <<>>
    /\ ignoreLinks = FALSE
    /\ i = 0
    /\ state = NullState
    /\ seekState = NullState
    /\ segments = <<>>
    /\ pc = "enter"
    /\ locale = "en-US"
    /\ groups = <<>>
    /\ rendered = <<>>
    /\ nodes \in NodeLists
    /\ node = 0
    /\ settings \in [renderLinkCitations : BOOLEAN, renderCitationsReadingMode : BOOLEAN]
    /\ sectionCites \in CacheLists
    /\ matchIndex = 0
    /\ pos = 0
    /\ frag = <<>>
    /\ fragments = <<>>
    /\ renderedLog = <<>>
    /\ NoDeco

\* if (!sectionCites?.length) return;  then the sort by noteIndex
Enter ==
    /\ pc = "enter"
    /\ IF sectionCites = <<>>
       THEN pc' = "finished" /\ UNCHANGED sectionCites
       ELSE pc' = "walk" /\ sectionCites' = SortCites(sectionCites)
    /\ UNCHANGED <<str, ignoreLinks, i, state, seekState, segments, locale, groups,
                   rendered, nodes, node, settings, matchIndex, pos, frag, fragments,
                   renderedLog>>
    /\ UNCHANGED decoVars

\* the call of getCitationSegments on the content of the node n
ScanNode(n) ==
    /\ str' = ContentOf(n)
    /\ ignoreLinks' = ~settings.renderLinkCitations
    /\ i' = 0
    /\ state' = NullState
    /\ seekState' = NullState
    /\ segments' = <<>>
    /\ pos' = 0
    /\ frag' = <<>>
    /\ matchIndex' = 1
    /\ pc' = "scan"

\* while ((node = walker.nextNode())): the next text node, or the end
Walk ==
    /\ pc = "walk"
    /\ IF node = Len(nodes)
       THEN /\ pc' = "finished"
            /\ UNCHANGED <<str, ignoreLinks, i, state, seekState, segments, node,
                           matchIndex, pos, frag>>
       ELSE /\ node' = node + 1
            /\ IF Skipped(nodes[node + 1])
               THEN UNCHANGED <<str, ignoreLinks, i, state, seekState, segments, pc,
                                matchIndex, pos, frag>>
               ELSE ScanNode(nodes[node + 1])
    /\ UNCHANGED <<locale, groups, rendered, nodes, settings, sectionCites, fragments,
                   renderedLog>>
    /\ UNCHANGED decoVars

\* one iteration of  for (const match of segments), found being the index
\* find gave: the filter reads rendered.noteIndex for every cached citation,
\* a TypeError when find gave undefined
MatchWith(match, found) ==
    IF found = 0 /\ sectionCites # <<>>
    THEN /\ pc' = "failed"
         /\ renderedLog' = Append(renderedLog, [match |-> match, rendered |-> <<>>])
         /\ UNCHANGED <<sectionCites, matchIndex, pos, frag>>
    ELSE /\ pc' = pc
         /\ renderedLog' = Append(renderedLog,
                                  [match |-> match,
                                   rendered |-> IF found = 0
                                                THEN <<>>
                                                ELSE <<sectionCites[found]>>])
         /\ sectionCites' = IF found = 0
                            THEN sectionCites
                            ELSE FilterCites(sectionCites, sectionCites[found])
         /\ frag' = frag \o (IF found = 0
                             THEN FallbackItems(str, pos, match)
                             ELSE RenderedItems(str, pos, match, sectionCites[found]))
         /\ pos' = match[Len(match)].to
         /\ matchIndex' = matchIndex + 1

ProcessMatch ==
    /\ pc = "returned"
    /\ node > 0
    /\ matchIndex <= Len(segments)
    /\ MatchWith(segments[matchIndex], FindCite(sectionCites, segments[matchIndex]))
    /\ UNCHANGED <<str, ignoreLinks, i, state, seekState, segments, locale, groups,
                   rendered, nodes, node, settings, fragments>>
    /\ UNCHANGED decoVars

\* if (didMatch): the trailing text is appended and the fragment replaces
\* the node
FinishNode ==
    /\ pc = "returned"
    /\ node > 0
    /\ matchIndex > Len(segments)
    /\ fragments' = IF segments # <<>>
                    THEN Append(fragments,
                                [node |-> node,
                                 items |-> Append(frag, TextItem(Slice(str, pos)))])
                    ELSE fragments
    /\ pc' = "walk"
    /\ UNCHANGED <<str, ignoreLinks, i, state, seekState, segments, locale, groups,
                   rendered, nodes, node, settings, sectionCites, matchIndex, pos, frag,
                   renderedLog>>
    /\ UNCHANGED decoVars

NextPost == Enter \/ Walk \/ Iterate \/ Return \/ ProcessMatch \/ FinishNode

\* processCiteKeys on an element
SpecPost == InitPost /\ [][NextPost]_vars

(***************************************************************************)
(* mkDeco: the editor plugin scans the text of every visible range with    *)
(* getCitationSegments and, for every match, looks in the file's cached    *)
(* citations for one with the same keys that no earlier match of the call  *)
(* has taken.  In live preview a match found is replaced by a widget       *)
(* unless the selection touches it; any other match has its segments       *)
(* marked one by one.  The syntax tree and the selection are inputs of     *)
(* each match: whether the selection touches it, and whether its node is   *)
(* on the ignore list (the marking loop then breaks at the first part).    *)
(* A null citekeyCache is the empty list: find gives undefined for both.   *)
(***************************************************************************)
\* most visible ranges of a generated view
MaxRanges == 2

RangeTexts ==
    {<<"[", "@", "a", "]">>,
     <<"[", "@", "b", "]">>,
     <<"[", "@", "a", "]", " ", "[", "@", "a", "]">>,
     <<"[", "@", "a", "]", " ", "[", "@", "b", "]">>,
     <<"x">>}

\* the offset of the k-th range when one hidden character separates the ranges
RECURSIVE RangeStart(_, _)
RangeStart(texts, k) ==
    IF k = 1 THEN 0 ELSE RangeStart(texts, k - 1) + Len(texts[k - 1]) + 1

\* view.visibleRanges with view.state.sliceDoc(from, to) of each
RangesOf(texts) ==
    [k \in 1..Len(texts) |-> [from |-> RangeStart(texts, k), text |-> texts[k]]]

RangeLists == {RangesOf(texts) : texts \in UNION {[1..n -> RangeTexts] : n \in 0..MaxRanges}}

\* the predicate of find: c was not matched before, its noteIndex is at
\* least the greatest finite noteIndex of matched (-Infinity when there is
\* none) or is null, and its keys are those of the match
Eligible(cache, seen, k, match) ==
    /\ k \notin seen
    /\ \/ cache[k].noteIndex = <<>>
       \/ \A m \in seen : cache[m].noteIndex # <<>> =>
                             cache[k].noteIndex[1] >= cache[m].noteIndex[1]
    /\ onlyKey(cache[k].data) = onlyKey(match)

\* citekeyCache?.citations.find(...): the index of the first eligible
\* citation, 0 when find gives undefined
FindDeco(cache, seen, match) ==
    IF \E k \in 1..Len(cache) : Eligible(cache, seen, k, match)
    THEN CHOOSE k \in 1..Len(cache) :
            /\ Eligible(cache, seen, k, match)
            /\ \A j \in 1..(k - 1) : ~Eligible(cache, seen, j, match)
    ELSE 0

\* b.add(start, end, citeDeco(rendered, ...))
CiteDeco(from, match, cite) ==
    [kind |-> "citeDeco",
     from |-> from + match[1].from,
     to |-> from + match[Len(match)].to,
     type |-> "",
     noteIndex |-> cite.noteIndex,
     val |-> cite.val]

\* the marks of the parts of a match; the mark of a key carries the
\* noteIndex of the citation found
RECURSIVE DecoMarks(_, _, _)
DecoMarks(from, parts, noteIndex) ==
    IF parts = <<>> THEN <<>>
    ELSE (IF Head(parts).type \in SpanTypes
          THEN <<[kind |-> "mark",
                  from |-> from + Head(parts).from,
                  to |-> from + Head(parts).to,
                  type |-> Head(parts).type,
                  noteIndex |-> IF Head(parts).type = "key" THEN noteIndex ELSE <<>>,
                  val |-> IF Head(parts).type = "key" THEN Head(parts).val ELSE <<>>]>>
          ELSE <<>>)
         \o DecoMarks(from, Tail(parts), noteIndex)

InitDeco ==
    /\ str = <<>>
    /\ ignoreLinks = FALSE
    /\ i = 0
    /\ state = NullState
    /\ seekState = NullState
    /\ segments = <<>>
    /\ pc = "mkDeco"
    /\ locale = "en-US"
    /\ groups = <<>>
    /\ rendered = <<>>
    /\ nodes = <<>>
    /\ node = 0
    /\ settings \in [renderLinkCitations : BOOLEAN, renderCitationsReadingMode : {FALSE}]
    /\ sectionCites = <<>>
    /\ matchIndex = 0
    /\ pos = 0
    /\ frag = <<>>
    /\ fragments = <<>>
    /\ renderedLog = <<>>
    /\ visibleRanges \in RangeLists
    /\ rangeIndex = 0
    /\ citekeyCache \in CacheLists
    /\ matched = {}
    /\ isLivePreview \in BOOLEAN
    /\ decorations = <<>>

\* citekeyCache?.citations.sort((a, b) => a.noteIndex - b.noteIndex);
\* const matched = new Set()
MkDeco ==
    /\ pc = "mkDeco"
    /\ citekeyCache' = SortCites(citekeyCache)
    /\ matched' = {}
    /\ pc' = "ranges"
    /\ UNCHANGED <<str, ignoreLinks, i, state, seekState, segments, locale, groups,
                   rendered, visibleRanges, rangeIndex, isLivePreview, decorations>>
    /\ UNCHANGED postVars

\* for (const { from, to } of view.visibleRanges): the next range is
\* scanned, or b.finish() is returned
NextRange ==
    /\ pc = "ranges"
    /\ IF rangeIndex = Len(visibleRanges)
       THEN /\ pc' = "finished"
            /\ UNCHANGED <<str, ignoreLinks, i, state, seekState, segments,
                           rangeIndex, matchIndex>>
       ELSE /\ rangeIndex' = rangeIndex + 1
            /\ str' = visibleRanges[rangeIndex + 1].text
            /\ ignoreLinks' = ~settings.renderLinkCitations
            /\ i' = 0
            /\ state' = NullState
            /\ seekState' = NullState
            /\ segments' = <<>>
            /\ matchIndex' = 1
            /\ pc' = "scan"
    /\ UNCHANGED <<locale, groups, rendered, nodes, node, settings, sectionCites, pos,
                   frag, fragments, renderedLog, visibleRanges, citekeyCache, matched,
                   isLivePreview, decorations>>

\* one iteration of  for (const match of segments), found being the index
\* find gave
DecoWith(match, found, selected, ignored) ==
    /\ matched' = IF found = 0 THEN matched ELSE matched \cup {found}
    /\ renderedLog' = Append(renderedLog,
                             [match |-> match,
                              rendered |-> IF found = 0
                                           THEN <<>>
                                           ELSE <<citekeyCache[found]>>])
    /\ decorations' =
          decorations
          \o (IF isLivePreview /\ found # 0 /\ ~selected
              THEN <<CiteDeco(visibleRanges[rangeIndex].from, match, citekeyCache[found])>>
              ELSE IF ignored
                   THEN <<>>
                   ELSE DecoMarks(visibleRanges[rangeIndex].from, match,
                                  IF found = 0 THEN <<>> ELSE citekeyCache[found].noteIndex))
    /\ matchIndex' = matchIndex + 1

DecoMatch ==
    /\ pc = "returned"
    /\ rangeIndex > 0
    /\ matchIndex <= Len(segments)
    /\ \E selected \in BOOLEAN, ignored \in BOOLEAN :
          DecoWith(segments[matchIndex],
                   FindDeco(citekeyCache, matched, segments[matchIndex]),
                   selected, ignored)
    /\ UNCHANGED <<str, ignoreLinks, i, state, seekState, segments, pc, locale, groups,
                   rendered, nodes, node, settings, sectionCites, pos, frag, fragments,
                   visibleRanges, rangeIndex, citekeyCache, isLivePreview>>

\* the matches of the range are done
RangeDone ==
    /\ pc = "returned"
    /\ rangeIndex > 0
    /\ matchIndex > Len(segments)
    /\ pc' = "ranges"
    /\ UNCHANGED <<str, ignoreLinks, i, state, seekState, segments, locale, groups,
                   rendered>>
    /\ UNCHANGED postVars
    /\ UNCHANGED decoVars

\* a rendering pass: one call of processCiteKeys or one call of mkDeco
InitPass == InitPost \/ InitDeco

NextPass ==
    \/ Enter
    \/ Walk
    \/ ProcessMatch
    \/ FinishNode
    \/ MkDeco
    \/ NextRange
    \/ DecoMatch
    \/ RangeDone
    \/ Iterate
    \/ Return

SpecPass == InitPass /\ [][NextPass]_vars

(***************************************************************************)
(* What the claims speak of.                                               *)
(***************************************************************************)
\* getCitationSegments has returned; segments is its result
Returned == pc \in {"returned", "done", "rendered"}

\* the groups of the result
GroupIds == 1..Len(segments)

HasType(group, type) == \E k \in 1..Len(group) : group[k].type = type

\* the vals of the segments of a group, concatenated in order
RECURSIVE ConcatVals(_)
ConcatVals(group) ==
    IF group = <<>> THEN <<>> ELSE Head(group).val \o ConcatVals(Tail(group))

\* text[group.from : group.to]
SpanText(group) == Substring(str, group[1].from, group[Len(group)].to)

(***************************************************************************)
(* C1.  Every group returned by getCitationSegments contains at least one  *)
(* segment of type key.  The code sets encounteredKey at the '@', before   *)
(* any key character is read, so the statement fails on the text "@".      *)
(***************************************************************************)
EveryGroupHasKey ==
    Returned => \A g \in GroupIds : HasType(segments[g], "key")

(***************************************************************************)
(* C2.  getCitationSegments never throws.  The code reads                  *)
(* state.shouldCancelSeek while state is null when an '@' follows a        *)
(* bracket group that was opened after a bare citation and abandoned at a  *)
(* line end.                                                               *)
(***************************************************************************)
NeverThrows == pc # "threw"

(***************************************************************************)
(* C3.  Every segment of every returned group has from < to, and within a  *)
(* group each segment ends at or before the start of the next one.         *)
(***************************************************************************)
SegmentsOrdered ==
    Returned =>
        \A g \in GroupIds :
            LET group == segments[g]
            IN  \A k \in 1..Len(group) :
                    /\ group[k].from < group[k].to
                    /\ k < Len(group) => group[k].to <= group[k + 1].from

\* a returned group that holds the segments of a parsed locator
SegmentsOrderedWitness ==
    /\ Returned
    /\ \E g \in GroupIds :
          /\ HasType(segments[g], "locatorLabel")
          /\ HasType(segments[g], "locator")
          /\ Len(segments[g]) >= 6

(***************************************************************************)
(* C4.  The returned groups are in source order and do not overlap: each   *)
(* group's last segment ends at or before the start of the next group's    *)
(* first segment.                                                          *)
(***************************************************************************)
GroupsOrdered ==
    Returned =>
        \A g \in GroupIds :
            g < Len(segments) =>
                segments[g][Len(segments[g])].to <= segments[g + 1][1].from

\* two groups were returned
GroupsOrderedWitness == Returned /\ Len(segments) >= 2

Done == pc = "done"

\* a Citation with the id and nothing else set
PlainCitation(id) ==
    [id |-> id, prefix |-> Undefined, suffix |-> Undefined, infix |-> Undefined,
     litNote |-> Undefined, citeType |-> Undefined, locator |-> Undefined,
     label |-> Undefined, composite |-> FALSE, suppressAuthor |-> FALSE,
     authorOnly |-> FALSE]

\* the number of segments of the type in a group
CountType(group, type) == Cardinality({k \in 1..Len(group) : group[k].type = type})

\* the group holds a segment of type t1 with val v1 directly before one of
\* type t2 with val v2
Adjacent(group, t1, v1, t2, v2) ==
    \E k \in 1..(Len(group) - 1) :
        /\ group[k].type = t1
        /\ group[k].val = v1
        /\ group[k + 1].type = t2
        /\ group[k + 1].val = v2

(***************************************************************************)
(* C6.  Scanning [@K] yields exactly one group, and getCitations on it     *)
(* yields exactly one citation, with id K and composite set to true.       *)
(* As stated it fails: the '@' of [@K] is the second segment of its group, *)
(* and composite is set only by an '@' that is the first.                  *)
(***************************************************************************)
BracketKeyComposite ==
    Done =>
        \A K \in Keys :
            str = BracketKey(K) =>
                /\ Len(segments) = 1
                /\ Len(groups[1].citations) = 1
                /\ groups[1].citations[1].id = K
                /\ groups[1].citations[1].composite

\* C6 as amended: scanning [@K] yields exactly one group, and getCitations on
\* it yields exactly one citation, with id K and nothing else set: composite
\* is not set.
BracketKeyPlain ==
    Done =>
        \A K \in Keys :
            str = BracketKey(K) =>
                /\ Len(segments) = 1
                /\ groups[1].citations = <<PlainCitation(K)>>

\* [@K] with a key of more than one character was scanned and folded
BracketKeyWitness ==
    /\ Done
    /\ \E K \in Keys : Len(K) > 1 /\ str = BracketKey(K)
    /\ Len(groups) = 1
    /\ ~groups[1].citations[1].composite

(***************************************************************************)
(* C7.  Scanning [@K1; @K2; ...; @Kn], n >= 2, yields exactly one group    *)
(* with n-1 separator segments, and getCitations on it yields exactly n    *)
(* citations whose ids are K1..Kn in that order.                           *)
(***************************************************************************)
BracketListCitations ==
    Done =>
        \A ks \in KeyLists :
            str = BracketList(ks) =>
                /\ Len(segments) = 1
                /\ CountType(segments[1], "separator") = Len(ks) - 1
                /\ Len(groups[1].citations) = Len(ks)
                /\ \A j \in 1..Len(ks) : groups[1].citations[j].id = ks[j]

\* a list of MaxCites keys, not all the same, was scanned and folded
BracketListWitness ==
    /\ Done
    /\ \E ks \in KeyLists :
          /\ Len(ks) = MaxCites
          /\ ks[1] # ks[2]
          /\ str = BracketList(ks)
    /\ Len(groups) = 1
    /\ Len(groups[1].citations) = MaxCites

(***************************************************************************)
(* C8.  Scanning [-@K] yields one group with a suppressor segment '-'      *)
(* directly before the at segment, and getCitations yields exactly one     *)
(* citation, with id K and suppress-author true, neither composite nor     *)
(* author-only.                                                            *)
(***************************************************************************)
SuppressedAuthor ==
    Done =>
        \A K \in Keys :
            str = Suppressed(K) =>
                /\ Len(segments) = 1
                /\ Adjacent(segments[1], "suppressor", <<"-">>, "at", <<"@">>)
                /\ Len(groups[1].citations) = 1
                /\ groups[1].citations[1].id = K
                /\ groups[1].citations[1].suppressAuthor
                /\ ~groups[1].citations[1].composite
                /\ ~groups[1].citations[1].authorOnly

\* [-@K] was scanned and folded into a citation that suppresses the author
SuppressedAuthorWitness ==
    /\ Done
    /\ \E K \in Keys : str = Suppressed(K)
    /\ Len(groups) = 1
    /\ groups[1].citations[1].suppressAuthor

(***************************************************************************)
(* C9.  For a label L that has a term in the locale's table and a number   *)
(* N, scanning [@K, L N] yields one group with a locatorLabel segment L    *)
(* and a locator segment N, and getCitations yields exactly one citation,  *)
(* with id K, locator N, the locale's term for L as label, and no suffix.  *)
(***************************************************************************)
LocatedCitation ==
    Done =>
        \A K \in ListKeys, L \in LocatorLabels, N \in Numbers :
            (str = Located(K, L, N) /\ locatorToTerm(locale, L) # Undefined) =>
                /\ Len(segments) = 1
                /\ \E k \in 1..Len(segments[1]) :
                      /\ segments[1][k].type = "locatorLabel"
                      /\ segments[1][k].val = L
                /\ \E k \in 1..Len(segments[1]) :
                      /\ segments[1][k].type = "locator"
                      /\ segments[1][k].val = N
                /\ groups[1].citations =
                      <<[PlainCitation(K) EXCEPT !.locator = N,
                                                 !.label = locatorToTerm(locale, L)]>>

\* [@K, pp. N] with a two-digit N was scanned and folded with a locale that
\* has a term for pp.
LocatedCitationWitness ==
    /\ Done
    /\ \E K \in ListKeys, N \in Numbers :
          /\ Len(N) = 2
          /\ str = Located(K, <<"p", "p", ".">>, N)
    /\ Len(groups) = 1
    /\ groups[1].citations[1].label = <<"p", "a", "g", "e">>

(***************************************************************************)
(* C10.  With ignoreLinks = false, scanning [[P|@K]] yields one group with *)
(* a litNote segment whose val is P directly before a linkSeparator '|',   *)
(* and getCitations yields exactly one citation, with id K, litNote P and  *)
(* composite true.  As stated it fails for a path that begins or ends with *)
(* a space: getCitations trims the litNote.                                *)
(***************************************************************************)
LinkNoteCitation ==
    (Done /\ ~ignoreLinks) =>
        \A P \in Paths, K \in ListKeys :
            str = LinkNote(P, K) =>
                /\ Len(segments) = 1
                /\ Adjacent(segments[1], "litNote", P, "linkSeparator", <<"|">>)
                /\ groups[1].citations =
                      <<[PlainCitation(K) EXCEPT !.litNote = P, !.composite = TRUE]>>

\* C10 as amended: the citation's litNote is P without its leading and
\* trailing whitespace, and is not set when P is only spaces.
LinkNoteCitationTrimmed ==
    (Done /\ ~ignoreLinks) =>
        \A P \in Paths, K \in ListKeys :
            str = LinkNote(P, K) =>
                /\ Len(segments) = 1
                /\ Adjacent(segments[1], "litNote", P, "linkSeparator", <<"|">>)
                /\ groups[1].citations =
                      <<[PlainCitation(K) EXCEPT
                           !.litNote = IF Trim(P) = <<>> THEN Undefined ELSE Trim(P),
                           !.composite = TRUE]>>

\* [[P|@K]] with a path that begins with a space was scanned and folded
LinkNoteWitness ==
    /\ Done
    /\ ~ignoreLinks
    /\ \E P \in Paths, K \in ListKeys :
          /\ Head(P) = " "
          /\ Trim(P) # <<>>
          /\ str = LinkNote(P, K)
          /\ Len(groups) = 1
          /\ groups[1].citations[1].litNote = Trim(P)

(***************************************************************************)
(* C11.  With ignoreLinks = true no returned group holds a key segment     *)
(* that lies inside a [[...]] wiki link, and no returned group is a        *)
(* bracket group whose closing ']' is directly followed by '(', whatever   *)
(* precedes the link.  The code marks a bracket state as a link only when  *)
(* the character before its '[' is '[' and no state is open: after a bare  *)
(* citation that seeks its suffix the first '[' opens the state (inLink    *)
(* false) and the second only deepens it, so "@a [[@b]]" returns the key b.*)
(***************************************************************************)
\* the span [from, to) lies inside a wiki link of str: between a "[[" and
\* the next "]]" with no bracket and no line end in between
InWikiLink(from, to) ==
    \E a \in 0..(from - 2), b \in to..(Len(str) - 2) :
        /\ CharAt(str, a) = "[" /\ CharAt(str, a + 1) = "["
        /\ CharAt(str, b) = "]" /\ CharAt(str, b + 1) = "]"
        /\ \A k \in (a + 2)..(b - 1) : CharAt(str, k) \notin {"[", "]", "\r", "\n"}

IgnoreLinksSuppresses ==
    (Returned /\ ignoreLinks) =>
        \A g \in GroupIds :
            /\ \A k \in 1..Len(segments[g]) :
                  segments[g][k].type = "key" =>
                      ~InWikiLink(segments[g][k].from, segments[g][k].to)
            /\ ~(/\ segments[g][Len(segments[g])].type = "bracket"
                 /\ segments[g][Len(segments[g])].val = <<"]">>
                 /\ CharAt(str, segments[g][Len(segments[g])].to) = "(")

(***************************************************************************)
(* C12.  For T in {fig, tbl, eq, sec} and an alphanumeric id K, scanning   *)
(* [@T:K] yields, between the brackets, the segments at, citeType T,       *)
(* typeSeparator ':' and key K; getCitations yields one citation with      *)
(* citeType T and id K; and renderCrossrefType yields exactly one          *)
(* RenderedCitation, whose val is [Figure K], [Table K], [Equation K] or   *)
(* [Section K].                                                            *)
(***************************************************************************)
\* renderCrossrefType has returned; rendered is its result
Rendered == pc = "rendered"

\* the singular word of a crossref type
SingularWord(T) ==
    CASE T = <<"f", "i", "g">> -> <<"F", "i", "g", "u", "r", "e", " ">>
      [] T = <<"t", "b", "l">> -> <<"T", "a", "b", "l", "e", " ">>
      [] T = <<"e", "q">> -> <<"E", "q", "u", "a", "t", "i", "o", "n", " ">>
      [] T = <<"s", "e", "c">> -> <<"S", "e", "c", "t", "i", "o", "n", " ">>

CrossKeyRendered ==
    \A T \in CrossTypes, K \in CrossKeys :
        (Rendered /\ str = CrossKey(T, K)) =>
            /\ Len(segments) = 1
            /\ [k \in 1..Len(segments[1]) |-> segments[1][k].type]
                 = <<"bracket", "at", "citeType", "typeSeparator", "key", "bracket">>
            /\ Len(segments[1]) = 6
            /\ segments[1][3].val = T
            /\ segments[1][4].val = <<":">>
            /\ segments[1][5].val = K
            /\ Len(groups) = 1
            /\ Len(groups[1].citations) = 1
            /\ groups[1].citations[1].citeType = T
            /\ groups[1].citations[1].id = K
            /\ Len(rendered) = 1
            /\ rendered[1].val = <<"[">> \o SingularWord(T) \o K \o <<"]">>

\* [@T:K] has been scanned, folded and rendered
CrossKeyWitness ==
    /\ Rendered
    /\ \E T \in CrossTypes, K \in CrossKeys : str = CrossKey(T, K)
    /\ Len(rendered) = 1

(***************************************************************************)
(* C13.  renderCrossrefType returns exactly one RenderedCitation for each  *)
(* input group whose first citation's citeType is one of fig, tbl, eq,     *)
(* sec, and none for any other group; the outputs are in input order,      *)
(* without deduplication, with data, citations, from and to copied from    *)
(* the group.  The code keeps a group when any of its citations has a      *)
(* citeType that contains one of the four words, so [@a; @fig:b1] is       *)
(* rendered though its first citation has no citeType.                     *)
(***************************************************************************)
\* the groups whose first citation's citeType is a crossref type
FirstTyped ==
    SelectSeq(groups, LAMBDA g : g.citations[1].citeType \in CrossTypes)

RenderKeepsFirstTyped ==
    Rendered =>
        /\ Len(rendered) = Len(FirstTyped)
        /\ \A k \in 1..Len(rendered) :
              k <= Len(FirstTyped) =>
                  /\ rendered[k].data = FirstTyped[k].data
                  /\ rendered[k].citations = FirstTyped[k].citations
                  /\ rendered[k].from = FirstTyped[k].from
                  /\ rendered[k].to = FirstTyped[k].to

(***************************************************************************)
(* C14.  Every RenderedCitation has val = '[' + label + ids joined by      *)
(* ', ' + ']', the label being the singular word of the first citation's   *)
(* citeType when the group has one citation and the plural word when it    *)
(* has more, computed from that group alone.  The variable label of the    *)
(* code is declared outside the loop and assigned only by the four cases   *)
(* of the switch: a rendered group whose first citation has another        *)
(* citeType, or none, gets the label of the group before it, or the text   *)
(* "undefined".                                                            *)
(***************************************************************************)
\* the plural word of a crossref type
PluralWord(T) ==
    CASE T = <<"f", "i", "g">> -> <<"F", "i", "g", "u", "r", "e", "s", " ">>
      [] T = <<"t", "b", "l">> -> <<"T", "a", "b", "l", "e", "s", " ">>
      [] T = <<"e", "q">> -> <<"E", "q", "u", "a", "t", "i", "o", "n", "s", " ">>
      [] T = <<"s", "e", "c">> -> <<"S", "e", "c", "t", "i", "o", "n", "s", " ">>

\* id1, id2, ..., idn
RECURSIVE CommaIds(_)
CommaIds(cs) ==
    IF Len(cs) = 1 THEN cs[1].id ELSE cs[1].id \o <<",", " ">> \o CommaIds(Tail(cs))

RenderedLabelOwn ==
    Rendered =>
        \A k \in 1..Len(rendered) :
            LET cs == rendered[k].citations
            IN  /\ cs[1].citeType \in CrossTypes
                /\ rendered[k].val =
                     <<"[">>
                     \o (IF Len(cs) > 1
                         THEN PluralWord(cs[1].citeType)
                         ELSE SingularWord(cs[1].citeType))
                     \o CommaIds(cs)
                     \o <<"]">>

(***************************************************************************)
(* C15.  In every Citation record produced by getCitations at most one of  *)
(* the flags composite, suppress-author and author-only is set.            *)
(***************************************************************************)
FlagsExclusive ==
    Done =>
        \A g \in 1..Len(groups) :
            \A k \in 1..Len(groups[g].citations) :
                LET c == groups[g].citations[k]
                IN  /\ ~(c.composite /\ c.suppressAuthor)
                    /\ ~(c.composite /\ c.authorOnly)
                    /\ ~(c.suppressAuthor /\ c.authorOnly)

\* a group in which a suppressor is followed by a literature note, so that
\* suppressAuthor and composite are both set when its citation is pushed
FlagsExclusiveWitness ==
    /\ Done
    /\ \E g \in 1..Len(groups) :
          /\ \E j, k \in 1..Len(segments[g]) :
                /\ j < k
                /\ segments[g][j].type = "suppressor"
                /\ segments[g][k].type = "litNote"
                /\ \A n \in j..k : segments[g][n].type # "separator"
          /\ \E k \in 1..Len(groups[g].citations) : groups[g].citations[k].composite

(***************************************************************************)
(* C16.  An '@' that is not directly followed by a key-start character (a  *)
(* letter, a digit, '_' or '{') produces no group: no returned group holds *)
(* an at segment for it.  The code sets encounteredKey at the '@'; when    *)
(* the text or the line ends right after a bare '@' the terminus branch    *)
(* of the key block ends the group, which is returned with the at alone.   *)
(***************************************************************************)
KeyStart(c) == c \in Letters \cup Digits \cup {"_", "{"}

LoneAtNoGroup ==
    Returned =>
        \A g \in GroupIds :
            \A k \in 1..Len(segments[g]) :
                segments[g][k].type = "at" =>
                    KeyStart(CharAt(str, segments[g][k].from + 1))

(***************************************************************************)
(* C17.  No returned group spans a line terminator: the text between the   *)
(* from of its first segment and the to of its last holds no CR or LF.     *)
(* The code clears state at a line end inside brackets but keeps           *)
(* seekState, so the bare citation saved there is joined to the next       *)
(* bracket group that closes, on whatever line.                            *)
(***************************************************************************)
NoGroupSpansLine ==
    Returned =>
        \A g \in GroupIds :
            \A k \in segments[g][1].from..(segments[g][Len(segments[g])].to - 1) :
                CharAt(str, k) \notin {"\r", "\n"}

(***************************************************************************)
(* C18.  If a bare citation that seeks its suffix is followed by a '['     *)
(* group still open when the text ends, the bare citation is flushed: a    *)
(* group with its segments is returned.  And an unterminated '[' group     *)
(* returns nothing: a group that holds an opening bracket ends with the    *)
(* closing one.  The code flushes state after the loop, never seekState,   *)
(* and state is the bracket state (cleared at the end of the text): the    *)
(* bare citation is lost.                                                  *)
(***************************************************************************)
\* a bare citation was saved at a '[' and the text ends, with no line end
\* in between, before the bracket group closes
PendingAtEnd ==
    /\ seekState.live
    /\ seekState.segment # <<>>
    /\ \A k \in seekState.segment[Len(seekState.segment)].to..(Len(str) - 1) :
          CharAt(str, k) \notin {"\r", "\n"}

PendingBareFlushed ==
    Returned =>
        /\ PendingAtEnd =>
              \E g \in GroupIds :
                  /\ Len(segments[g]) >= Len(seekState.segment)
                  /\ SubSeq(segments[g], 1, Len(seekState.segment)) = seekState.segment
        /\ \A g \in GroupIds :
              (\E k \in 1..Len(segments[g]) :
                  /\ segments[g][k].type = "bracket"
                  /\ Head(segments[g][k].val) = "[")
              => /\ segments[g][Len(segments[g])].type = "bracket"
                 /\ segments[g][Len(segments[g])].val = <<"]">>

(***************************************************************************)
(* C19.  In a bare citation, a punctuation character in the key that is    *)
(* directly followed by another punctuation character ends the citation,   *)
(* whatever the key text: the group holds no character at or after the     *)
(* first of the two.  The code tests the key text for a crossref type      *)
(* before it tests for the second punctuation character, so in "@eq.."     *)
(* the first '.' is emitted as a typeSeparator.                            *)
(***************************************************************************)
\* the length of the alphanumeric key text after the '@' that opens str
KeyRun == RunLen(Tail(str), Letters \cup Digits)

\* str is a bare key followed by two punctuation characters
DoublePunctAfterKey ==
    /\ str # <<>>
    /\ Head(str) = "@"
    /\ KeyRun >= 1
    /\ CharAt(str, KeyRun + 1) # Undef /\ punct(CharAt(str, KeyRun + 1))
    /\ CharAt(str, KeyRun + 2) # Undef /\ punct(CharAt(str, KeyRun + 2))

DoublePunctEnds ==
    (Returned /\ DoublePunctAfterKey) =>
        \A g \in GroupIds :
            segments[g][1].from = 0 => segments[g][Len(segments[g])].to <= KeyRun + 1

(***************************************************************************)
(* C20.  A segment is typed citeType only if its val is exactly fig, tbl,  *)
(* eq or sec and it is directly followed by a typeSeparator ':' and then a *)
(* key.  The code tests the key text with an unanchored pattern at any     *)
(* punctuation character of the key: "@eq.a" gives citeType eq followed by *)
(* a typeSeparator ".a" and no key, "@seq:a" gives citeType seq.           *)
(***************************************************************************)
CiteTypeExact ==
    Returned =>
        \A g \in GroupIds :
            \A k \in 1..Len(segments[g]) :
                segments[g][k].type = "citeType" =>
                    /\ segments[g][k].val \in CrossTypes
                    /\ k + 2 <= Len(segments[g])
                    /\ segments[g][k + 1].type = "typeSeparator"
                    /\ segments[g][k + 1].val = <<":">>
                    /\ segments[g][k + 2].type = "key"

(***************************************************************************)
(* C21.  Every Citation record that getCitations produces from a returned  *)
(* group has an id that is a defined, non-empty text, the val of a key     *)
(* segment of that group.  The code pushes a citation at the end of every  *)
(* group and at every separator, whether or not a key was seen: the group  *)
(* of "@" has no key segment and its citation has an undefined id.         *)
(***************************************************************************)
CitationHasId ==
    Done =>
        \A g \in 1..Len(groups) :
            \A k \in 1..Len(groups[g].citations) :
                /\ groups[g].citations[k].id # Undefined
                /\ groups[g].citations[k].id # <<>>
                /\ \E n \in 1..Len(segments[g]) :
                      /\ segments[g][n].type = "key"
                      /\ segments[g][n].val = groups[g].citations[k].id

(***************************************************************************)
(* C22.  For a locatorLabel L that has no term in the table of the locale  *)
(* (or a locale that has no table), getCitations returns a citation with   *)
(* no label, whose id and locator are those of the key and the locator     *)
(* segments.                                                               *)
(***************************************************************************)
UnknownLabelOmitted ==
    Done =>
        \A K \in ListKeys, L \in LocatorLabels, N \in Numbers :
            (str = Located(K, L, N) /\ locatorToTerm(locale, L) = Undefined) =>
                /\ Len(groups) = 1
                /\ Len(groups[1].citations) = 1
                /\ groups[1].citations[1].label = Undefined
                /\ groups[1].citations[1].id = K
                /\ groups[1].citations[1].locator = N

\* [@K, L N] was folded with a locale that has no term for L, and the group
\* holds the locatorLabel segment L
UnknownLabelWitness ==
    /\ Done
    /\ \E K \in ListKeys, L \in LocatorLabels, N \in Numbers :
          /\ str = Located(K, L, N)
          /\ locatorToTerm(locale, L) = Undefined
          /\ \E k \in 1..Len(segments[1]) :
                segments[1][k].type = "locatorLabel" /\ segments[1][k].val = L
    /\ groups[1].citations[1].locator # Undefined

LocatorFollows(group, k) ==
    \E j \in (k + 1)..Len(group) :
        /\ group[j].type = "locator"
        /\ \A n \in (k + 1)..(j - 1) : group[n].type = "locatorSuffix"

NoSpeculativeLocator ==
    Returned =>
        \A g \in GroupIds :
            \A k \in 1..Len(segments[g]) :
                /\ segments[g][k].type = "locatorLabel" =>
                      LocatorFollows(segments[g], k)
                /\ segments[g][k].type \in {"suffix", "locator", "locatorSuffix"} =>
                      /\ segments[g][k].val =
                            Substring(str, segments[g][k].from, segments[g][k].to)
                      /\ k > 1 => segments[g][k - 1].to = segments[g][k].from

\* a returned group with a suffix that starts with a locator label which no
\* locator follows: the lookahead matched the label and then gave up
NoSpeculativeLocatorWitness ==
    /\ Returned
    /\ \E g \in GroupIds :
          /\ ~HasType(segments[g], "locatorLabel")
          /\ \E k \in 2..Len(segments[g]) :
                /\ segments[g][k].type = "suffix"
                /\ segments[g][k - 1].type = "key"
                /\ locators(segments[g][k].val) # <<>>
                /\ parsePossibleLocator(segments[g][k]) = <<>>

(***************************************************************************)
(* C25.  Every bare citation, an '@' at the start of the text or after a   *)
(* valid pre-key character, followed by a key of letters and digits and    *)
(* then a space or tab, is emitted in some returned group that holds its   *)
(* key segment, whatever follows.  The code replaces the state of a bare   *)
(* citation that seeks its suffix when the next '@' comes ("@a @b" returns *)
(* only b), and never flushes the one saved in seekState when the bracket  *)
(* group after it does not close.                                          *)
(***************************************************************************)
\* at offset p of str, with nothing but white space before it, a bare
\* citation begins: its key has n characters and a space or tab follows it
BareCitationAt(p, n) ==
    /\ CharAt(str, p) = "@"
    /\ isValidPreKey(CharAt(str, p - 1))
    /\ \A q \in 0..(p - 1) : CharAt(str, q) \in {" ", "\t", "\n", "\r"}
    /\ n >= 1
    /\ \A q \in (p + 1)..(p + n) : CharAt(str, q) \in Letters \cup Digits
    /\ space(CharAt(str, p + n + 1))

BareCitationEmitted ==
    Returned =>
        \A p \in 0..(Len(str) - 1), n \in 1..Len(str) :
            BareCitationAt(p, n) =>
                \E g \in GroupIds :
                    \E k \in 1..Len(segments[g]) :
                        /\ segments[g][k].type = "key"
                        /\ segments[g][k].from = p + 1
                        /\ segments[g][k].to = p + 1 + n

(***************************************************************************)
(* C26.  A saved seekState is merged only into the bracket group whose     *)
(* '[' saved it: when that group is closed, discarded or abandoned (line   *)
(* end, end of text) seekState is cleared, so seekState is set only while  *)
(* that bracket group is open.  The code clears state alone at a line end  *)
(* inside brackets (and at a key that does not begin), so seekState stays  *)
(* set and is joined to the next bracket group that closes.                *)
(***************************************************************************)
SeekStateWhileOpen ==
    (pc = "scan" /\ seekState.live) => (state.live /\ state.inBrackets)

(***************************************************************************)
(* C27.  In every returned group each segment of type at, separator,       *)
(* suppressor, linkSeparator, typeSeparator, bracket or curlyBracket has a *)
(* val of one character: '@', ';', '-', '|', ':', '[' or ']', '{' or '}'.  *)
(* The code appends to the current segment whatever its type: a second     *)
(* '[' after a bare citation gives a bracket "[[", a letter after ';'      *)
(* that ended a key gives a separator ";a".                                *)
(***************************************************************************)
TokenChars(type) ==
    CASE type = "at" -> {"@"}
      [] type = "separator" -> {";"}
      [] type = "suppressor" -> {"-"}
      [] type = "linkSeparator" -> {"|"}
      [] type = "typeSeparator" -> {":"}
      [] type = "bracket" -> {"[", "]"}
      [] type = "curlyBracket" -> {"{", "}"}

TokensOneChar ==
    Returned =>
        \A g \in GroupIds :
            \A k \in 1..Len(segments[g]) :
                segments[g][k].type \in {"at", "separator", "suppressor", "linkSeparator",
                                         "typeSeparator", "bracket", "curlyBracket"}
                => /\ Len(segments[g][k].val) = 1
                   /\ segments[g][k].val[1] \in TokenChars(segments[g][k].type)

(***************************************************************************)
(* C28.  In a bracket group the text between a ';' and the next '@', as    *)
(* ' see ' in [@a; see @b], is emitted as a prefix segment, and            *)
(* getCitations makes it the prefix of the citation that follows and the   *)
(* suffix of neither, whether or not the ';' ended the key before it.      *)
(* The code leaves inKey set when the ';' ends the key, so the space after *)
(* the ';' is read by the key block and begins a suffix: in [@a; see @b]   *)
(* the citation b gets the suffix 'see'.  With a space before the ';' the  *)
(* text is a prefix.                                                       *)
(***************************************************************************)
\* the group of str holds the prefix ' W ' and the citation after the
\* separator has the prefix W, neither citation a suffix
PrefixAssigned(W, K2) ==
    /\ Len(groups) = 1
    /\ \E k \in 1..Len(segments[1]) :
          /\ segments[1][k].type = "prefix"
          /\ segments[1][k].val = <<" ">> \o W \o <<" ">>
    /\ groups[1].citations =
          <<PlainCitation(<<"a">>), [PlainCitation(K2) EXCEPT !.prefix = W]>>

TextAfterSeparatorIsPrefix ==
    Done =>
        \A W \in PrefixWords, K2 \in ListKeys :
            (str = PrefixedDirect(<<"a">>, W, K2) \/ str = PrefixedSpaced(<<"a">>, W, K2))
            => PrefixAssigned(W, K2)

(***************************************************************************)
(* C29.  After a separator the next citation starts from empty             *)
(* accumulators: it has no id, citeType, prefix, suffix, locator, label or *)
(* litNote unless a segment after the separator sets it.  The code does    *)
(* not reset key and citeType at a separator: in [@a;] the citation pushed *)
(* at the end has the id a again, in [@fig:a; @b] the citation b has the   *)
(* citeType fig.                                                           *)
(***************************************************************************)
\* the index in the group of its n-th separator (0 for n = 0 and
\* Len(group) + 1 when there is none)
RECURSIVE SeparatorIndex(_, _)
SeparatorIndex(group, n) ==
    IF n = 0 THEN 0
    ELSE LET after == SeparatorIndex(group, n - 1)
         IN  IF \E k \in (after + 1)..Len(group) : group[k].type = "separator"
             THEN CHOOSE k \in (after + 1)..Len(group) :
                     /\ group[k].type = "separator"
                     /\ \A j \in (after + 1)..(k - 1) : group[j].type # "separator"
             ELSE Len(group) + 1

\* a segment of the type lies between the (n-1)-th and the n-th separator
SetAfterSeparator(group, n, type) ==
    \E k \in (SeparatorIndex(group, n - 1) + 1)..(SeparatorIndex(group, n) - 1) :
        k <= Len(group) /\ group[k].type = type

SeparatorResets ==
    Done =>
        \A g \in 1..Len(groups) :
            ~HasType(segments[g], "suppressor") =>
                \A n \in 2..Len(groups[g].citations) :
                    LET c == groups[g].citations[n]
                        set(type) == SetAfterSeparator(segments[g], n, type)
                    IN  /\ c.id # Undefined => set("key")
                        /\ c.citeType # Undefined => set("citeType")
                        /\ c.prefix # Undefined => set("prefix")
                        /\ c.suffix # Undefined => set("suffix")
                        /\ c.locator # Undefined => set("locator")
                        /\ c.label # Undefined => set("locatorLabel")
                        /\ c.litNote # Undefined => set("litNote")

(***************************************************************************)
(* C30.  In processCiteKeys, when a match found in a text node has the     *)
(* keys of none of the section's cached citations, the handler does not    *)
(* fail: it renders the match segment by segment and goes on.  The code    *)
(* reads rendered.noteIndex in the filter before it tests rendered, so it  *)
(* throws a TypeError whenever find gave undefined and sectionCites is not *)
(* empty.                                                                  *)
(***************************************************************************)
UnmatchedFallsBack == pc # "failed"

(***************************************************************************)
(* C31.  Within one rendering pass (one call of mkDeco, one call of        *)
(* processCiteKeys on an element) a cached citation with a defined         *)
(* noteIndex is matched to at most one citation occurrence, whatever the   *)
(* sequence of occurrences with equal keys: no two matches of the pass     *)
(* were bound to the same cached citation with a defined noteIndex.        *)
(* mkDeco keeps the set matched and find skips its members; processCiteKeys*)
(* filters out of sectionCites every citation with the noteIndex of the    *)
(* one found.                                                              *)
(***************************************************************************)
MatchedAtMostOnce ==
    \A j \in 1..Len(renderedLog), k \in 1..Len(renderedLog) :
        (/\ j < k
         /\ renderedLog[j].rendered # <<>>
         /\ renderedLog[j].rendered[1].noteIndex # <<>>)
        => renderedLog[k].rendered # renderedLog[j].rendered

\* two occurrences with equal keys were taken in the call of processCiteKeys,
\* the first of them bound to a cached citation with a defined noteIndex
MatchedAtMostOnceWitness ==
    /\ node > 0
    /\ \E j \in 1..Len(renderedLog), k \in 1..Len(renderedLog) :
          /\ j < k
          /\ renderedLog[j].rendered # <<>>
          /\ renderedLog[j].rendered[1].noteIndex # <<>>
          /\ onlyKey(renderedLog[k].match) = onlyKey(renderedLog[j].match)

====
